---- MODULE Spec2Model ----
(***************************************************************************)
(* Model of the two schema-aware engines of graphql-utilities:             *)
(*   - generateFragments (app/api/generate/route.ts): fragment synthesis   *)
(*     over a list of introspection type definitions;                      *)
(*   - validateDataAgainstSchema (lib/utils/schema-validator.ts): the      *)
(*     structural diff of a JSON-like value against an object type.        *)
(* A behaviour serves one request: either a generate request, modelled     *)
(* step by step (one frame per createFragment call), or a validate         *)
(* request, whose pure recursive core is an operator applied by one step.  *)
(* The functions around the two engines (the operation builders of the     *)
(* generate route, buildCompleteQueryWithFragments, formatValidationReport *)
(* and the signature generators) are applied by one step each to arguments *)
(* drawn by the initial state of their own specification.                  *)
(***************************************************************************)
EXTENDS Integers, Sequences, FiniteSets, TLC

VARIABLES
  request,          \* "generate" | "validate": which entry point runs
  \* ---- validateDataAgainstSchema(schemaText, data, typeName)
  vschemaText,      \* the schemaText argument (names one of the SDL texts)
  vdata,            \* the data argument
  vtypeName,        \* the typeName argument
  vpc,              \* "call" | "returned" | "thrown" | "idle"
  vresult,          \* the ValidationResult returned (or the error thrown)
  \* ---- generateFragments(schema, maxDepth)
  schema,           \* schema.types, a sequence of type definitions
  maxDepth,         \* the maxDepth argument
  fragments,        \* Record<string, string>: fragment name -> fragment
  fragmentCache,    \* Map: type name -> sequence of [signature, fragmentName]
  fragmentCounters, \* Map: type name -> number of variants so far
  stack,            \* the createFragment calls in progress, innermost last
  typeIdx,          \* position of schema.types.forEach (1-based)
  gpc,              \* "loop" | "done" | "idle"
  \* ---- the other entry points, each a function of its arguments
  call,             \* the function called and its arguments
  ret               \* the value it returned

vvars == <<vschemaText, vdata, vtypeName, vpc, vresult>>
gvars == <<schema, maxDepth, fragments, fragmentCache, fragmentCounters,
           stack, typeIdx, gpc>>
cvars == <<call, ret>>
vars == <<request, vschemaText, vdata, vtypeName, vpc, vresult, schema, maxDepth, fragments,
          fragmentCache, fragmentCounters, stack, typeIdx, gpc, call, ret>>

\* no call of another entry point is in progress
NoCall == [fn |-> "none"]

(***************************************************************************)
(* Bounds of the model.                                                    *)
(***************************************************************************)
\* largest number of nodes (scalars, arrays, objects) of a data instance
MaxNodes == 3
\* largest number of type definitions in schema.types
MaxTypes == 2
\* maxDepth ranges over 0..MaxDepthArg
MaxDepthArg == 1

(***************************************************************************)
(* Generic helpers.                                                        *)
(***************************************************************************)
RECURSIVE Flatten(_)
Flatten(ss) == IF ss = <<>> THEN <<>> ELSE Head(ss) \o Flatten(Tail(ss))

Range(s) == {s[i] : i \in 1..Len(s)}

RECURSIVE Join(_, _)
Join(strs, sep) ==
  IF strs = <<>> THEN ""
  ELSE IF Len(strs) = 1 THEN strs[1]
  ELSE strs[1] \o sep \o Join(Tail(strs), sep)

(***************************************************************************)
(* JSON-like data.  A value is a tagged record; an object keeps its own    *)
(* keys in Object.keys order.                                              *)
(***************************************************************************)
Null == [t |-> "null"]
Undefined == [t |-> "undefined"]
Num == [t |-> "number"]
Str == [t |-> "string"]
Bool == [t |-> "boolean"]
Fn == [t |-> "function"]
Arr(items) == [t |-> "array", items |-> items]
Obj(entries) == [t |-> "object", entries |-> entries]

OwnKeys(obj) == [i \in 1..Len(obj.entries) |-> obj.entries[i].k]
HasOwn(obj, key) == \E i \in 1..Len(obj.entries) : obj.entries[i].k = key
OwnValue(obj, key) ==
  (CHOOSE e \in Range(obj.entries) : e.k = key).v

\* Members every plain object inherits from Object.prototype.
ObjectPrototypeKeys ==
  {"constructor", "toString", "valueOf", "hasOwnProperty", "isPrototypeOf",
   "propertyIsEnumerable", "toLocaleString"}

\* JavaScript `key in obj`: own or inherited.
KeyIn(obj, key) == HasOwn(obj, key) \/ key \in ObjectPrototypeKeys

GetPropUndefined(obj, key) == Undefined

\* JavaScript obj[key].
GetProp(obj, key) ==
  IF HasOwn(obj, key) THEN OwnValue(obj, key)
  ELSE IF key \in ObjectPrototypeKeys THEN Fn
  ELSE Undefined

(***************************************************************************)
(* GraphQL types as the validator sees them (graphql-js type objects).     *)
(***************************************************************************)
NonNullT(t) == [kind |-> "NON_NULL", ofType |-> t]
ListT(t) == [kind |-> "LIST", ofType |-> t]
ScalarT(n) == [kind |-> "SCALAR", name |-> n]
EnumT(n) == [kind |-> "ENUM", name |-> n]
ObjectT(n) == [kind |-> "OBJECT", name |-> n]

isNonNullType(t) == t.kind = "NON_NULL"
isListType(t) == t.kind = "LIST"
isScalarType(t) == t.kind = "SCALAR"
isEnumType(t) == t.kind = "ENUM"
isObjectTypeAlways(t) == TRUE

isObjectType(t) == t.kind = "OBJECT"

RECURSIVE getNamedType(_)
getNamedType(t) ==
  IF isNonNullType(t) \/ isListType(t) THEN getNamedType(t.ofType) ELSE t

RECURSIVE getTypeString(_)
getTypeString(t) ==
  IF isNonNullType(t) THEN getTypeString(t.ofType) \o "!"
  ELSE IF isListType(t) THEN "[" \o getTypeString(t.ofType) \o "]"
  ELSE t.name

isRequiredNever(type) == FALSE

isRequired(type) == isNonNullType(type)

getJSType(value) == value.t

(***************************************************************************)
(* The SDL texts validated against, as buildSchema parses them: a map from *)
(* type name to type, the fields of an object type in declaration order.   *)
(***************************************************************************)
Field(n, t) == [name |-> n, type |-> t]

\* type User { id: ID!  name: String! }
AccountSDL ==
  [User |-> [kind |-> "OBJECT", name |-> "User",
             fields |-> << Field("id", NonNullT(ScalarT("ID"))),
                           Field("name", NonNullT(ScalarT("String"))) >>]]

\* type User { age: Int  posts: [Post!]!  friend: User }
\* type Post { title: String! }
BlogSDL ==
  [User |-> [kind |-> "OBJECT", name |-> "User",
             fields |-> << Field("age", ScalarT("Int")),
                           Field("posts",
                                 NonNullT(ListT(NonNullT(ObjectT("Post"))))),
                           Field("friend", ObjectT("User")) >>],
   Post |-> [kind |-> "OBJECT", name |-> "Post",
             fields |-> << Field("title", NonNullT(ScalarT("String"))) >>]]

\* type Product { price: Float!  inStock: Boolean  category: Category
\*                constructor: String }
\* enum Category { ELECTRONICS CLOTHING BOOKS }
ShopSDL ==
  [Product |-> [kind |-> "OBJECT", name |-> "Product",
                fields |-> << Field("price", NonNullT(ScalarT("Float"))),
                              Field("inStock", ScalarT("Boolean")),
                              Field("category", EnumT("Category")),
                              Field("constructor", ScalarT("String")) >>],
   Category |-> [kind |-> "ENUM", name |-> "Category", fields |-> <<>>]]

SchemaTexts == {"account", "blog", "shop"}

buildSchema(schemaText) ==
  CASE schemaText = "account" -> AccountSDL
    [] schemaText = "blog" -> BlogSDL
    [] schemaText = "shop" -> ShopSDL

\* schema.getType(typeName); "none" stands for undefined
getType(sch, typeName) ==
  IF typeName \in DOMAIN sch THEN sch[typeName] ELSE [kind |-> "none"]

\* objectType.getFields() of the object type a reference names
getFields(sch, namedType) == sch[namedType.name].fields

(***************************************************************************)
(* validateDataAgainstType: the recursive diff of a value against a type.  *)
(***************************************************************************)
NoDiagnostics == [missing |-> <<>>, extra |-> <<>>, typeErrors |-> <<>>]

PushAllKeepFirst(acc, r) == acc

\* missing.push(...r.missing); extra.push(...r.extra); typeErrors.push(...)
\* (acc and r are bound to a and b so that each is worked out once)
PushAll(acc, r) ==
  CHOOSE pushed \in {[missing |-> a.missing \o b.missing,
                      extra |-> a.extra \o b.extra,
                      typeErrors |-> a.typeErrors \o b.typeErrors] :
                        a \in {acc}, b \in {r}} : TRUE

ItemPathFromOne(path, index) == path \o "[" \o ToString(index + 1) \o "]"

\* `${path}[${index}]`, index counted from 0
ItemPath(path, index) == path \o "[" \o ToString(index) \o "]"

FieldPathKeyOnly(path, key) == key

\* path ? `${path}.${key}` : key
FieldPath(path, key) == IF path # "" THEN path \o "." \o key ELSE key

\* what typeof value yields "object" for (arrays and null included)
TypeofIsObject(data) == data.t \in {"object", "array", "null"}

ExpectedJSTypeNumbersOnly(typeName) ==
  IF typeName = "Int" \/ typeName = "Float" THEN "number" ELSE ""

\* the JavaScript type a built-in scalar name is checked against; "" for a
\* custom scalar or an enum, which are not checked
ExpectedJSType(typeName) ==
  IF typeName = "Int" \/ typeName = "Float" THEN "number"
  ELSE IF typeName = "String" \/ typeName = "ID" THEN "string"
  ELSE IF typeName = "Boolean" THEN "boolean"
  ELSE ""

ExtraFieldsNone(data, fields, path, objectTypeName) == <<>>

\* the extra-field pass over Object.keys(data)
ExtraFields(data, fields, path, objectTypeName) ==
  LET declared == {fields[j].name : j \in 1..Len(fields)}
      keys == OwnKeys(data)
      one(key) ==
        IF key \notin declared
        THEN << [path |-> FieldPath(path, key),
                 fieldName |-> key,
                 reason |-> "Field '" \o key \o "' not found in type '"
                            \o objectTypeName \o "'"] >>
        ELSE <<>>
  IN Flatten([i \in 1..Len(keys) |-> one(keys[i])])

RECURSIVE validateDataAgainstType(_, _, _, _, _, _)
RECURSIVE ValidateItems(_, _, _, _, _, _, _)
RECURSIVE ValidateFields(_, _, _, _, _, _)

validateDataAgainstType(data, type, sch, path, fieldName, parentTypeName) ==
  IF data = Null \/ data = Undefined
  THEN IF isRequired(type)
       THEN [NoDiagnostics EXCEPT !.missing =
               << [path |-> path, fieldName |-> fieldName,
                   fieldType |-> getTypeString(type), required |-> TRUE,
                   parentType |-> parentTypeName] >>]
       ELSE NoDiagnostics
  ELSE
    LET currentType == IF isNonNullType(type) THEN type.ofType ELSE type
    IN
    IF isListType(currentType)
    THEN IF data.t # "array"
         THEN [NoDiagnostics EXCEPT !.typeErrors =
                 << [path |-> path, fieldName |-> fieldName,
                     expectedType |-> getTypeString(type),
                     actualType |-> getJSType(data)] >>]
         ELSE ValidateItems(data.items, 1, currentType.ofType, sch, path,
                            fieldName, parentTypeName)
    ELSE
      LET namedType == getNamedType(currentType)
      IN
      IF isScalarType(namedType) \/ isEnumType(namedType)
      THEN LET jsType == getJSType(data)
               typeName == namedType.name
           IN IF ExpectedJSType(typeName) # ""
                 /\ jsType # ExpectedJSType(typeName)
              THEN [NoDiagnostics EXCEPT !.typeErrors =
                      << [path |-> path, fieldName |-> fieldName,
                          expectedType |-> typeName,
                          actualType |-> jsType] >>]
              ELSE NoDiagnostics
      ELSE IF isObjectType(namedType)
      THEN IF ~TypeofIsObject(data) \/ data.t = "array"
           THEN [NoDiagnostics EXCEPT !.typeErrors =
                   << [path |-> path, fieldName |-> fieldName,
                       expectedType |-> namedType.name,
                       actualType |-> getJSType(data)] >>]
           ELSE LET fields == getFields(sch, namedType)
                    fromFields == ValidateFields(data, fields, 1, sch, path,
                                                 namedType.name)
                IN [fromFields EXCEPT !.extra =
                      @ \o ExtraFields(data, fields, path, namedType.name)]
      ELSE NoDiagnostics

\* data.forEach((item, index) => ...) from item number i on
ValidateItems(items, i, itemType, sch, path, fieldName, parentTypeName) ==
  IF i > Len(items) THEN NoDiagnostics
  ELSE PushAll(
         validateDataAgainstType(items[i], itemType, sch,
                                 ItemPath(path, i - 1), fieldName,
                                 parentTypeName),
         ValidateItems(items, i + 1, itemType, sch, path, fieldName,
                       parentTypeName))

\* Object.entries(fields).forEach(([fieldKey, field]) => ...) from field j on
ValidateFields(data, fields, j, sch, path, objectTypeName) ==
  IF j > Len(fields) THEN NoDiagnostics
  ELSE
    LET fieldKey == fields[j].name
        field == fields[j]
        fieldPath == FieldPath(path, fieldKey)
        here ==
          IF ~KeyIn(data, fieldKey)
          THEN [NoDiagnostics EXCEPT !.missing =
                  << [path |-> fieldPath, fieldName |-> fieldKey,
                      fieldType |-> getTypeString(field.type),
                      required |-> isRequired(field.type),
                      parentType |-> objectTypeName] >>]
          ELSE validateDataAgainstType(GetProp(data, fieldKey), field.type,
                                       sch, fieldPath, fieldKey,
                                       objectTypeName)
    IN PushAll(here, ValidateFields(data, fields, j + 1, sch, path,
                                    objectTypeName))

(***************************************************************************)
(* validateDataAgainstSchema: the entry point.  It throws when the type is *)
(* absent or not an object type, and otherwise returns the result.         *)
(***************************************************************************)
IsValidWithoutExtras(result) ==
  Len(result.missing) = 0 /\ Len(result.typeErrors) = 0
    /\ Len(result.extra) = 0

\* valid: missing.length === 0 && typeErrors.length === 0
IsValid(result) == Len(result.missing) = 0 /\ Len(result.typeErrors) = 0

validateDataAgainstSchema(schemaText, data, typeName) ==
  LET sch == buildSchema(schemaText)
      type == getType(sch, typeName)
  IN IF type.kind = "none"
     THEN [thrown |-> TRUE,
           message |-> "Schema validation failed: Type '" \o typeName
                        \o "' not found in schema"]
     ELSE IF ~isObjectType(type)
     THEN [thrown |-> TRUE,
           message |-> "Schema validation failed: Type '" \o typeName
                        \o "' is not an object type"]
     ELSE LET result == validateDataAgainstType(data, ObjectT(typeName), sch,
                                                "", typeName, typeName)
          IN [thrown |-> FALSE,
              valid |-> IsValid(result),
              missingFields |-> result.missing,
              extraFields |-> result.extra,
              typeErrors |-> result.typeErrors]

(***************************************************************************)
(* The data instances a validate request is made with: every value of at   *)
(* most MaxNodes nodes whose object keys are field names of the schema or  *)
(* the undeclared key "nickname", keys in a fixed order.                   *)
(***************************************************************************)
Atoms == {Null, Num, Str, Bool}

DataKeys(schemaText) ==
  CASE schemaText = "account" -> << "id", "name", "nickname" >>
    [] schemaText = "blog" -> << "age", "posts", "friend", "title", "nickname" >>
    [] schemaText = "shop" -> << "price", "inStock", "category", "constructor",
                                 "nickname" >>

RECURSIVE ValuesOfSize(_, _)
RECURSIVE ItemSeqs(_, _)
RECURSIVE EntrySeqs(_, _, _)

\* the values of exactly n nodes
ValuesOfSize(n, keys) ==
  (IF n = 1 THEN Atoms ELSE {})
    \cup {Arr(items) : items \in ItemSeqs(n - 1, keys)}
    \cup {Obj(entries) : entries \in EntrySeqs(n - 1, 1, keys)}

\* the item sequences of m nodes in all
ItemSeqs(m, keys) ==
  IF m = 0 THEN {<<>>}
  ELSE UNION { { <<v>> \o rest : v \in ValuesOfSize(k, keys),
                                 rest \in ItemSeqs(m - k, keys) }
               : k \in 1..m }

\* the entry sequences of m nodes in all over keys[from..]
EntrySeqs(m, from, keys) ==
  IF m = 0 THEN {<<>>}
  ELSE UNION { { <<[k |-> keys[i], v |-> v]>> \o rest :
                   v \in ValuesOfSize(k, keys),
                   rest \in EntrySeqs(m - k, i + 1, keys) }
               : <<i, k>> \in (from..Len(keys)) \X (1..m) }

DataValues(schemaText) ==
  {Undefined} \cup
  UNION { ValuesOfSize(n, DataKeys(schemaText)) : n \in 1..MaxNodes }

\* the data tried with a typeName that is rejected before the data is read
RejectedCallData == {Undefined, Null, Str, Obj(<<>>)}

\* the typeName arguments tried with a schema: its types and an absent name
TypeNames(schemaText) == DOMAIN buildSchema(schemaText) \cup {"Missing"}

(***************************************************************************)
(* Validate request.                                                       *)
(***************************************************************************)
NoResult == [thrown |-> FALSE, pending |-> TRUE]

InitValidate ==
  /\ request = "validate"
  /\ vschemaText \in SchemaTexts
  /\ vtypeName \in TypeNames(vschemaText)
  /\ vdata \in IF isObjectType(getType(buildSchema(vschemaText), vtypeName))
               THEN DataValues(vschemaText)
               ELSE RejectedCallData
  /\ vpc = "call"
  /\ vresult = NoResult
  /\ schema = <<>> /\ maxDepth = 0 /\ fragments = <<>>
  /\ fragmentCache = <<>> /\ fragmentCounters = <<>>
  /\ stack = <<>> /\ typeIdx = 1 /\ gpc = "idle"
  /\ call = NoCall /\ ret = NoCall

\* validateDataAgainstSchema(schemaText, data, typeName) runs to its end
Validate ==
  /\ request = "validate" /\ vpc = "call"
  /\ vresult' = validateDataAgainstSchema(vschemaText, vdata, vtypeName)
  /\ vpc' = IF vresult'.thrown THEN "thrown" ELSE "returned"
  /\ UNCHANGED <<request, cvars, vschemaText, vdata, vtypeName, gvars>>

(***************************************************************************)
(* generateFragments: the schema it is called with.  schema.types is a     *)
(* list of introspection type definitions, not unique by name.             *)
(***************************************************************************)
\* a type definition; fieldsPresent = FALSE stands for fields: null
TypeDef(n, k, present, fs) ==
  [name |-> n, kind |-> k, fieldsPresent |-> present, fields |-> fs]

NoTypeDef == TypeDef("", "none", FALSE, <<>>)

GenTypeNames == {"A", "B"}

\* the fields type definitions are made of: a scalar and two references
GenFieldPool ==
  { Field("x", NonNullT(ScalarT("String"))),
    Field("y", ListT(ObjectT("A"))),
    Field("y", NonNullT(ObjectT("B"))) }

\* the field lists: no two fields of a list share a name
GenFieldLists ==
  {<<>>} \cup { <<f>> : f \in GenFieldPool }
         \cup { <<f, g>> : <<f, g>> \in
                   { p \in GenFieldPool \X GenFieldPool : p[1].name # p[2].name } }

GenTypeDefs ==
  { TypeDef(n, "OBJECT", TRUE, fs) : <<n, fs>> \in GenTypeNames \X GenFieldLists }
    \cup { TypeDef(n, "OBJECT", FALSE, <<>>) : n \in GenTypeNames }

RECURSIVE SchemasOfLen(_)
SchemasOfLen(n) ==
  IF n = 0 THEN {<<>>}
  ELSE { <<d>> \o rest : <<d, rest>> \in GenTypeDefs \X SchemasOfLen(n - 1) }

GenSchemas == UNION { SchemasOfLen(n) : n \in 0..MaxTypes }

(***************************************************************************)
(* Helpers of generateFragments.                                           *)
(***************************************************************************)
\* getTypeName: the named type under the NON_NULL and LIST wrappers
RECURSIVE getTypeName(_)
getTypeName(type) ==
  IF type.kind = "NON_NULL" THEN getTypeName(type.ofType)
  ELSE IF type.kind = "LIST" THEN getTypeName(type.ofType)
  ELSE type.name

\* the generator's isScalarType
genIsScalarType(type) ==
  \/ type.kind = "SCALAR"
  \/ (type.kind = "NON_NULL" /\ type.ofType.kind = "SCALAR")

\* the generator's isObjectType
genIsObjectType(type) ==
  \/ type.kind = "OBJECT"
  \/ type.kind = "LIST"
  \/ (type.kind = "NON_NULL"
        /\ (type.ofType.kind = "OBJECT" \/ type.ofType.kind = "LIST"))

findTypeOrFirst(types, typeName) ==
  IF \E i \in 1..Len(types) : types[i].name = typeName
  THEN types[CHOOSE i \in 1..Len(types) :
               /\ types[i].name = typeName
               /\ \A j \in 1..(i - 1) : types[j].name # typeName]
  ELSE IF types # <<>> THEN types[1] ELSE NoTypeDef

\* schema.types.find(t => t.name === typeName); NoTypeDef for undefined
findType(types, typeName) ==
  IF \E i \in 1..Len(types) : types[i].name = typeName
  THEN types[CHOOSE i \in 1..Len(types) :
               /\ types[i].name = typeName
               /\ \A j \in 1..(i - 1) : types[j].name # typeName]
  ELSE NoTypeDef

\* UTF-16 code units of the names used, the order Array.prototype.sort
\* compares strings by
CodeUnits(str) ==
  CASE str = "x" -> <<120>>
    [] str = "y" -> <<121>>
    [] str = "A" -> <<65>>
    [] str = "B" -> <<66>>
    [] str = "String" -> <<83, 116, 114, 105, 110, 103>>
    [] str = "a" -> <<97>>
    [] str = "M" -> <<77>>
    [] str = "N" -> <<78>>
    [] str = "U" -> <<85>>

RECURSIVE CodesLess(_, _)
CodesLess(a, b) ==
  IF b = <<>> THEN FALSE
  ELSE IF a = <<>> THEN TRUE
  ELSE IF Head(a) # Head(b) THEN Head(a) < Head(b)
  ELSE CodesLess(Tail(a), Tail(b))

\* `${f.name}:${getTypeName(f.type)}` with its code units
SignatureToken(f) ==
  [text |-> f.name \o ":" \o getTypeName(f.type),
   codes |-> CodeUnits(f.name) \o <<58>> \o CodeUnits(getTypeName(f.type))]

RECURSIVE InsertSorted(_, _)
InsertSorted(tok, sorted) ==
  IF sorted = <<>> THEN <<tok>>
  ELSE IF CodesLess(tok.codes, Head(sorted).codes)
       THEN <<tok>> \o sorted
       ELSE <<Head(sorted)>> \o InsertSorted(tok, Tail(sorted))

SortTokensLeftUnsorted(toks) == toks

\* Array.prototype.sort() on the tokens
RECURSIVE SortTokens(_)
SortTokens(toks) ==
  IF toks = <<>> THEN <<>>
  ELSE InsertSorted(Head(toks), SortTokens(Tail(toks)))

\* the signature createFragment computes for a type definition instance:
\* `${typeName}[${fields.map(...).sort().join(",")}]` (toks is bound to the
\* sorted tokens so that the sort is worked out once)
detailedSignature(typeName, typeDef) ==
  CHOOSE signature \in
    { typeName \o "["
        \o Join([i \in 1..Len(toks) |-> toks[i].text], ",") \o "]" :
      toks \in { SortTokens([i \in 1..Len(typeDef.fields) |->
                               SignatureToken(typeDef.fields[i])]) } } : TRUE

\* fragmentCache.get(typeName), <<>> for undefined
CacheGet(cache, typeName) ==
  IF typeName \in DOMAIN cache THEN cache[typeName] ELSE <<>>

\* fragmentCounters.get(typeName) || 1
CounterGet(counters, typeName) ==
  IF typeName \in DOMAIN counters THEN counters[typeName] ELSE 1

MapSetAlone(map, key, value) == [k \in {key} |-> value]

MapSet(map, key, value) ==
  [k \in DOMAIN map \cup {key} |-> IF k = key THEN value ELSE map[k]]

EmptyMap == [k \in {} |-> 0]

findOrCreateFragmentNameKeyedByName(typeName, signature, cache, counters) ==
  LET cached == CacheGet(cache, typeName)
      fragmentName == typeName \o "Fragment"
  IN IF cached # <<>>
     THEN [fragmentName |-> cached[1].fragmentName,
           cache |-> cache, counters |-> counters]
     ELSE [fragmentName |-> fragmentName,
           cache |-> MapSet(cache, typeName,
                       << [signature |-> signature,
                           fragmentName |-> fragmentName] >>),
           counters |-> MapSet(counters, typeName, 1)]

findOrCreateFragmentNameCounterFromOne(typeName, signature, cache, counters) ==
  LET cached == CacheGet(cache, typeName)
      counter == CounterGet(counters, typeName)
      newFragmentName ==
        IF cached = <<>> THEN typeName \o "Fragment"
        ELSE typeName \o "Fragment_" \o ToString(counter)
  IN IF \E i \in 1..Len(cached) : cached[i].signature = signature
     THEN [fragmentName |->
             cached[CHOOSE i \in 1..Len(cached) :
                      cached[i].signature = signature].fragmentName,
           cache |-> cache, counters |-> counters]
     ELSE [fragmentName |-> newFragmentName,
           cache |-> MapSet(cache, typeName,
                       Append(cached, [signature |-> signature,
                                       fragmentName |-> newFragmentName])),
           counters |-> MapSet(counters, typeName, counter)]

\* findOrCreateFragmentName: the name, and the cache and counters after it
findOrCreateFragmentName(typeName, signature, cache, counters) ==
  LET cached == CacheGet(cache, typeName)
  IN IF cached # <<>>
     THEN IF \E i \in 1..Len(cached) : cached[i].signature = signature
          THEN [fragmentName |->
                  cached[CHOOSE i \in 1..Len(cached) :
                           /\ cached[i].signature = signature
                           /\ \A j \in 1..(i - 1) :
                                 cached[j].signature # signature].fragmentName,
                cache |-> cache, counters |-> counters]
          ELSE LET counter == CounterGet(counters, typeName) + 1
                   newFragmentName ==
                     typeName \o "Fragment_" \o ToString(counter)
               IN [fragmentName |-> newFragmentName,
                   cache |-> MapSet(cache, typeName,
                               Append(cached, [signature |-> signature,
                                               fragmentName |-> newFragmentName])),
                   counters |-> MapSet(counters, typeName, counter)]
     ELSE LET fragmentName == typeName \o "Fragment"
          IN [fragmentName |-> fragmentName,
              cache |-> MapSet(cache, typeName,
                          << [signature |-> signature,
                              fragmentName |-> fragmentName] >>),
              counters |-> MapSet(counters, typeName, 1)]

(***************************************************************************)
(* createFragment.  A call that gets past its early returns stays on the   *)
(* stack as a frame while typeDef.fields.map runs; a nested call is made   *)
(* by the frame on top.                                                    *)
(***************************************************************************)
\* one element of the fields array: a field name, with the fragment spread
\* into it ("" when the field is selected bare)
Selected(fieldName, spread) == [name |-> fieldName, spread |-> spread]

SelectionText(sel) ==
  IF sel.spread # "" THEN sel.name \o " { ..." \o sel.spread \o " }"
  ELSE sel.name

\* `fragment ${fragmentName} on ${typeName} { ${fields.join(" ")} }`
FragmentOf(fragmentName, typeName, selection) ==
  [on |-> typeName,
   selection |-> selection,
   text |-> "fragment " \o fragmentName \o " on " \o typeName \o " { "
            \o Join([i \in 1..Len(selection) |-> SelectionText(selection[i])],
                    " ")
            \o " }"]

EntryRefusedNoDepthTest(typeName, depth, visitedTypes) ==
  typeName = "" \/ typeName \in visitedTypes

\* the early-return test at the head of createFragment
EntryRefusedNoVisitedTest(typeName, depth, visitedTypes) ==
  typeName = "" \/ depth > maxDepth

EntryRefused(typeName, depth, visitedTypes) ==
  typeName = "" \/ depth > maxDepth \/ typeName \in visitedTypes

\* typeDefToUse || schema.types.find(t => t.name === typeName)
ResolveTypeDefByNameLookup(typeName, typeDefToUse) ==
  findType(schema, typeName)

ResolveTypeDef(typeName, typeDefToUse) ==
  IF typeDefToUse # NoTypeDef THEN typeDefToUse
  ELSE findType(schema, typeName)

\* createFragment up to the point where it maps the fields: either it
\* returns at once (returned: "" for null, or a fragment name) or it goes on
\* to build (a frame); findOrCreateFragmentName has acted in both cases
createFragmentEntry(typeName, depth, visitedTypes, typeDefToUse, cache, counters, frags) ==
  LET typeDef == ResolveTypeDef(typeName, typeDefToUse)
      refused == [build |-> FALSE, returned |-> "", cache |-> cache,
                  counters |-> counters, frame |-> <<>>]
  IN IF EntryRefused(typeName, depth, visitedTypes) THEN refused
     ELSE IF typeDef = NoTypeDef \/ ~typeDef.fieldsPresent THEN refused
     ELSE
       LET signature == detailedSignature(typeName, typeDef)
           found == findOrCreateFragmentName(typeName, signature, cache,
                                             counters)
       IN IF found.fragmentName \in DOMAIN frags
          THEN [build |-> FALSE, returned |-> found.fragmentName,
                cache |-> found.cache, counters |-> found.counters,
                frame |-> <<>>]
          ELSE [build |-> TRUE, returned |-> "",
                cache |-> found.cache, counters |-> found.counters,
                frame |-> << [typeName |-> typeName,
                              depth |-> depth,
                              visitedTypes |-> visitedTypes \cup {typeName},
                              typeDef |-> typeDef,
                              signature |-> signature,
                              fragmentName |-> found.fragmentName,
                              fieldIdx |-> 1,
                              fields |-> <<>>] >>]

\* the frame on top with the value of its current field appended
Mapped(frame, sel) ==
  [frame EXCEPT !.fields = Append(@, sel), !.fieldIdx = @ + 1]

Top == stack[Len(stack)]
Below == SubSeq(stack, 1, Len(stack) - 1)

InitGenerate ==
  /\ request = "generate"
  /\ schema \in GenSchemas
  /\ maxDepth \in 0..MaxDepthArg
  /\ fragments = EmptyMap
  /\ fragmentCache = EmptyMap
  /\ fragmentCounters = EmptyMap
  /\ stack = <<>>
  /\ typeIdx = 1
  /\ gpc = "loop"
  /\ vschemaText = "" /\ vdata = Undefined /\ vtypeName = ""
  /\ vpc = "idle" /\ vresult = NoResult
  /\ call = NoCall /\ ret = NoCall

\* schema.types.forEach: the type is no OBJECT with fields, nothing is done
SkipType ==
  /\ request = "generate" /\ gpc = "loop" /\ stack = <<>>
  /\ typeIdx <= Len(schema)
  /\ LET type == schema[typeIdx]
     IN ~(type.kind = "OBJECT" /\ type.fieldsPresent /\ Len(type.fields) > 0)
  /\ typeIdx' = typeIdx + 1
  /\ UNCHANGED <<request, cvars, vvars, schema, maxDepth, fragments, fragmentCache,
                 fragmentCounters, stack, gpc>>

\* schema.types.forEach: createFragment(type.name, 0, new Set(), type)
TopLevelCall ==
  /\ request = "generate" /\ gpc = "loop" /\ stack = <<>>
  /\ typeIdx <= Len(schema)
  /\ LET type == schema[typeIdx]
     IN /\ type.kind = "OBJECT" /\ type.fieldsPresent /\ Len(type.fields) > 0
        /\ \E e \in {createFragmentEntry(type.name, 0, {}, type,
                                         fragmentCache, fragmentCounters,
                                         fragments)} :
             /\ fragmentCache' = e.cache
             /\ fragmentCounters' = e.counters
             /\ stack' = e.frame
             /\ typeIdx' = IF e.build THEN typeIdx ELSE typeIdx + 1
  /\ UNCHANGED <<request, cvars, vvars, schema, maxDepth, fragments, gpc>>

\* fields.map callback on a field that needs no nested call: a scalar, a
\* field that is neither scalar nor object, or an object met at maxDepth
MapBareField ==
  /\ request = "generate" /\ stack # <<>>
  /\ Top.fieldIdx <= Len(Top.typeDef.fields)
  /\ LET field == Top.typeDef.fields[Top.fieldIdx]
     IN /\ \/ genIsScalarType(field.type)
           \/ ~genIsObjectType(field.type)
           \/ ~(getTypeName(field.type) # "" /\ Top.depth < maxDepth)
        /\ stack' = Append(Below, Mapped(Top, Selected(field.name, "")))
  /\ UNCHANGED <<request, cvars, vvars, schema, maxDepth, fragments, fragmentCache,
                 fragmentCounters, typeIdx, gpc>>

\* fields.map callback on an object field: the nested createFragment call
\* returns at once (null, or the name of a fragment already built)
MapObjectFieldReturned ==
  /\ request = "generate" /\ stack # <<>>
  /\ Top.fieldIdx <= Len(Top.typeDef.fields)
  /\ LET field == Top.typeDef.fields[Top.fieldIdx]
     IN /\ ~genIsScalarType(field.type) /\ genIsObjectType(field.type)
        /\ getTypeName(field.type) # "" /\ Top.depth < maxDepth
        /\ \E e \in {createFragmentEntry(getTypeName(field.type),
                                         Top.depth + 1, Top.visitedTypes,
                                         NoTypeDef, fragmentCache,
                                         fragmentCounters, fragments)} :
             /\ ~e.build
             /\ fragmentCache' = e.cache
             /\ fragmentCounters' = e.counters
             /\ stack' = Append(Below, Mapped(Top, Selected(field.name, e.returned)))
  /\ UNCHANGED <<request, cvars, vvars, schema, maxDepth, fragments, typeIdx, gpc>>

\* fields.map callback on an object field: the nested createFragment call
\* goes on to build a fragment
MapObjectFieldCall ==
  /\ request = "generate" /\ stack # <<>>
  /\ Top.fieldIdx <= Len(Top.typeDef.fields)
  /\ LET field == Top.typeDef.fields[Top.fieldIdx]
     IN /\ ~genIsScalarType(field.type) /\ genIsObjectType(field.type)
        /\ getTypeName(field.type) # "" /\ Top.depth < maxDepth
        /\ \E e \in {createFragmentEntry(getTypeName(field.type),
                                         Top.depth + 1, Top.visitedTypes,
                                         NoTypeDef, fragmentCache,
                                         fragmentCounters, fragments)} :
             /\ e.build
             /\ fragmentCache' = e.cache
             /\ fragmentCounters' = e.counters
             /\ stack' = stack \o e.frame
  /\ UNCHANGED <<request, cvars, vvars, schema, maxDepth, fragments, typeIdx, gpc>>

StoreFragmentNestedUnstored ==
  /\ request = "generate" /\ stack # <<>>
  /\ Top.fieldIdx > Len(Top.typeDef.fields)
  /\ IF Len(stack) > 1
     THEN LET caller == stack[Len(stack) - 1]
              field == caller.typeDef.fields[caller.fieldIdx]
          IN /\ stack' = Append(SubSeq(stack, 1, Len(stack) - 2),
                                Mapped(caller,
                                       Selected(field.name, Top.fragmentName)))
             /\ typeIdx' = typeIdx
             /\ fragments' = fragments
     ELSE /\ stack' = <<>>
          /\ typeIdx' = typeIdx + 1
          /\ fragments' = MapSet(fragments, Top.fragmentName,
                                 FragmentOf(Top.fragmentName, Top.typeName,
                                            Top.fields))
  /\ UNCHANGED <<request, cvars, vvars, schema, maxDepth, fragmentCache,
                 fragmentCounters, gpc>>

\* the end of createFragment: the fragment is stored and its name returned,
\* to the field of the calling frame or to the forEach callback
StoreFragment ==
  /\ request = "generate" /\ stack # <<>>
  /\ Top.fieldIdx > Len(Top.typeDef.fields)
  /\ fragments' = MapSet(fragments, Top.fragmentName,
                         FragmentOf(Top.fragmentName, Top.typeName, Top.fields))
  /\ IF Len(stack) > 1
     THEN LET caller == stack[Len(stack) - 1]
              field == caller.typeDef.fields[caller.fieldIdx]
          IN /\ stack' = Append(SubSeq(stack, 1, Len(stack) - 2),
                                Mapped(caller,
                                       Selected(field.name, Top.fragmentName)))
             /\ typeIdx' = typeIdx
     ELSE /\ stack' = <<>>
          /\ typeIdx' = typeIdx + 1
  /\ UNCHANGED <<request, cvars, vvars, schema, maxDepth, fragmentCache,
                 fragmentCounters, gpc>>

\* generateFragments returns fragments
ReturnFragments ==
  /\ request = "generate" /\ gpc = "loop" /\ stack = <<>>
  /\ typeIdx > Len(schema)
  /\ gpc' = "done"
  /\ UNCHANGED <<request, cvars, vvars, schema, maxDepth, fragments, fragmentCache,
                 fragmentCounters, stack, typeIdx>>

Init == InitValidate \/ InitGenerate

Next ==
  \/ Validate
  \/ SkipType
  \/ TopLevelCall
  \/ MapBareField
  \/ MapObjectFieldReturned
  \/ MapObjectFieldCall
  \/ StoreFragment
  \/ ReturnFragments

Spec == Init /\ [][Next]_vars

\* the request handler runs to completion: no step waits on anything
FairSpec == Spec /\ WF_vars(Next)

(***************************************************************************)
(* Vocabulary of the properties.                                           *)
(***************************************************************************)
IsObjectWithFields(d) ==
  d.kind = "OBJECT" /\ d.fieldsPresent /\ Len(d.fields) > 0

\* the (field name, unwrapped named type) pairs of a definition
FieldSet(d) ==
  { <<d.fields[k].name, getTypeName(d.fields[k].type)>> : k \in 1..Len(d.fields) }

FieldNames(d) == [k \in 1..Len(d.fields) |-> d.fields[k].name]

SelectionNames(frag) == [k \in 1..Len(frag.selection) |-> frag.selection[k].name]

Registry(typeName) == CacheGet(fragmentCache, typeName)

DefsNamed(typeName) == { i \in 1..Len(schema) : schema[i].name = typeName }

\* the fragment stored under a registry entry selects the fields of d, each
\* once
EntryBuiltFrom(entry, d) ==
  /\ entry.fragmentName \in DOMAIN fragments
  /\ fragments[entry.fragmentName].on = d.name
  /\ Len(fragments[entry.fragmentName].selection) = Len(d.fields)
  /\ Range(SelectionNames(fragments[entry.fragmentName])) = Range(FieldNames(d))

\* C1: when generateFragments has returned, any two OBJECT definitions of
\* one name, each with a field, whose field sets differ have two distinct
\* registry entries with different signatures and different fragment names,
\* both stored in fragments, each selecting the fields of its definition;
\* when they are the only two definitions of the name, the names are
\* TFragment and TFragment_2.
C1_DistinctShapesGetDistinctFragments ==
  gpc = "done" =>
    \A i, j \in 1..Len(schema) :
      ( /\ i < j
        /\ schema[i].name = schema[j].name
        /\ IsObjectWithFields(schema[i]) /\ IsObjectWithFields(schema[j])
        /\ FieldSet(schema[i]) # FieldSet(schema[j]) )
      => LET T == schema[i].name
             reg == Registry(T)
         IN /\ \E a, b \in 1..Len(reg) :
                 /\ a # b
                 /\ reg[a].fragmentName # reg[b].fragmentName
                 /\ reg[a].signature # reg[b].signature
                 /\ EntryBuiltFrom(reg[a], schema[i])
                 /\ EntryBuiltFrom(reg[b], schema[j])
            /\ DefsNamed(T) = {i, j} =>
                 /\ Len(reg) = 2
                 /\ reg[1].fragmentName = T \o "Fragment"
                 /\ reg[2].fragmentName = T \o "Fragment_2"
                 /\ {T \o "Fragment", T \o "Fragment_2"} \subseteq DOMAIN fragments

\* C1 witness: a finished run on two same-named definitions of different
\* field sets, with the variant fragment stored.
C1_Witness ==
  /\ gpc = "done"
  /\ Len(schema) = 2
  /\ schema[1].name = schema[2].name
  /\ IsObjectWithFields(schema[1]) /\ IsObjectWithFields(schema[2])
  /\ FieldSet(schema[1]) # FieldSet(schema[2])
  /\ (schema[1].name \o "Fragment_2") \in DOMAIN fragments

\* C2: when generateFragments has returned, every OBJECT definition D with
\* a field has a registry entry under D.name whose signature is D's own and
\* whose stored fragment is on D.name and selects exactly D's fields, one
\* selection per field.
C2_EachDefinitionProcessedOnItsOwnContent ==
  gpc = "done" =>
    \A i \in 1..Len(schema) :
      IsObjectWithFields(schema[i]) =>
        \E a \in 1..Len(Registry(schema[i].name)) :
          LET entry == Registry(schema[i].name)[a]
          IN /\ entry.signature = detailedSignature(schema[i].name, schema[i])
             /\ EntryBuiltFrom(entry, schema[i])

\* C2 witness: a finished run in which the second definition of a name has
\* other field names than the first one, which name lookup would find.
C2_Witness ==
  /\ gpc = "done"
  /\ \E i, j \in 1..Len(schema) :
       /\ i < j /\ schema[i].name = schema[j].name
       /\ IsObjectWithFields(schema[i]) /\ IsObjectWithFields(schema[j])
       /\ FieldNames(schema[i]) # FieldNames(schema[j])
       /\ Range(FieldNames(schema[i])) # Range(FieldNames(schema[j]))

\* C3: when generateFragments has returned, a type name with two or more
\* OBJECT definitions that each have a field, all of whose definitions that
\* carry a field list have the same field set (in whatever order), has a
\* single registry entry, the bare TFragment is stored and no TFragment_2.
C3_IdenticalShapesShareOneFragment ==
  gpc = "done" =>
    \A i, j \in 1..Len(schema) :
      ( /\ i < j
        /\ schema[i].name = schema[j].name
        /\ IsObjectWithFields(schema[i]) /\ IsObjectWithFields(schema[j])
        /\ \A k \in DefsNamed(schema[i].name) :
              schema[k].fieldsPresent => FieldSet(schema[k]) = FieldSet(schema[i]) )
      => LET T == schema[i].name
         IN /\ Len(Registry(T)) = 1
            /\ (T \o "Fragment") \in DOMAIN fragments
            /\ (T \o "Fragment_2") \notin DOMAIN fragments
            /\ EntryBuiltFrom(Registry(T)[1], schema[i])

\* C3 witness: a finished run on two same-named definitions listing the
\* same two fields in opposite orders.
C3_Witness ==
  /\ gpc = "done"
  /\ Len(schema) = 2
  /\ schema[1].name = schema[2].name
  /\ Len(schema[1].fields) = 2
  /\ FieldSet(schema[1]) = FieldSet(schema[2])
  /\ schema[1].fields # schema[2].fields
  /\ (schema[1].name \o "Fragment") \in DOMAIN fragments

\* the type names reached from a definition through its fields, following
\* each named type to the definition name lookup finds, in at most n rounds
RECURSIVE ReachedWithin(_, _)
ReachedWithin(names, n) ==
  IF n = 0 THEN names
  ELSE ReachedWithin(
         names \cup UNION { { getTypeName(f.type) :
                                f \in Range(findType(schema, nm).fields) }
                            : nm \in names },
         n - 1)

ReachedFrom(d) ==
  ReachedWithin({ getTypeName(f.type) : f \in Range(d.fields) }, Len(schema))

\* the definition refers to its own name, directly or through other types
SelfReferential(d) == d.name \in ReachedFrom(d)

Terminated ==
  \/ request = "generate" /\ gpc = "done"
  \/ request = "validate" /\ vpc \in {"returned", "thrown"}

\* the calls in progress are at depths 0, 1, 2, ... up to maxDepth, each on
\* a type name of its own, and a field already mapped whose type is on the
\* recursion path of its frame was emitted bare
RecursionBounded ==
  /\ Len(stack) <= maxDepth + 1
  /\ \A k \in 1..Len(stack) :
       /\ stack[k].depth = k - 1
       /\ \A m \in 1..Len(stack) : m # k => stack[m].typeName # stack[k].typeName
       /\ \A m \in 1..Len(stack[k].fields) :
            getTypeName(stack[k].typeDef.fields[m].type) \in stack[k].visitedTypes
              => stack[k].fields[m].spread = ""

\* every self-referential OBJECT definition with a field has its fragment,
\* and no stored fragment spreads a fragment on its own type
SelfReferentialFragmentsBuilt ==
  gpc = "done" =>
    /\ \A i \in 1..Len(schema) :
         (IsObjectWithFields(schema[i]) /\ SelfReferential(schema[i])) =>
           \E a \in 1..Len(Registry(schema[i].name)) :
             EntryBuiltFrom(Registry(schema[i].name)[a], schema[i])
    /\ \A n \in DOMAIN fragments :
         \A k \in 1..Len(fragments[n].selection) :
           LET spread == fragments[n].selection[k].spread
           IN spread # "" =>
                /\ spread \in DOMAIN fragments
                /\ fragments[spread].on # fragments[n].on

\* C7: under the handler's run-to-completion scheduling every request
\* terminates (generateFragments returns for every schema and maxDepth >= 0,
\* validateDataAgainstSchema returns or throws for every data instance);
\* meanwhile the recursion of createFragment stays within maxDepth + 1
\* frames on distinct type names, a field whose type is on the recursion
\* path is emitted bare, and at the end every self-referential OBJECT
\* definition has its fragment.
C7_SelfReferenceTerminates ==
  /\ <>Terminated
  /\ [](RecursionBounded /\ SelfReferentialFragmentsBuilt)

\* C7 witness: a finished run, with maxDepth >= 1, on a definition with a
\* field of its own type: its fragment is stored and selects the field bare.
C7_Witness ==
  /\ gpc = "done" /\ maxDepth >= 1
  /\ \E i \in 1..Len(schema) :
       /\ IsObjectWithFields(schema[i])
       /\ \E k \in 1..Len(schema[i].fields) :
            /\ getTypeName(schema[i].fields[k].type) = schema[i].name
            /\ \E n \in DOMAIN fragments :
                 /\ fragments[n].on = schema[i].name
                 /\ Len(fragments[n].selection) = Len(schema[i].fields)
                 /\ fragments[n].selection[k] =
                      Selected(schema[i].fields[k].name, "")

(***************************************************************************)
(* Vocabulary of the validator's properties.  A position is a value of the *)
(* data together with the type declared for it and the steps that lead to  *)
(* it from the root: the root itself, a field the object has (as `in`      *)
(* finds it) under an object-typed position, an element under a list-typed *)
(* position.                                                               *)
(***************************************************************************)
FieldStep(name) == [field |-> name, index |-> -1]
IndexStep(i) == [field |-> "", index |-> i]

\* the access path the steps spell out
RECURSIVE AccessPath(_)
AccessPath(steps) ==
  IF steps = <<>> THEN ""
  ELSE LET p == AccessPath(SubSeq(steps, 1, Len(steps) - 1))
           last == steps[Len(steps)]
       IN IF last.field = "" THEN p \o "[" \o ToString(last.index) \o "]"
          ELSE IF p = "" THEN last.field
          ELSE p \o "." \o last.field

NullOrUndefined(value) == value.t \in {"null", "undefined"}

Unwrapped(type) == IF type.kind = "NON_NULL" THEN type.ofType ELSE type

\* an object-typed position holding a non-null, non-array object
ObjectPosition(p) ==
  Unwrapped(p.type).kind = "OBJECT" /\ p.value.t = "object"

RECURSIVE PositionsBelow(_, _, _, _)
PositionsBelow(value, type, steps, sch) ==
  LET cur == Unwrapped(type)
      below ==
        IF NullOrUndefined(value) THEN {}
        ELSE IF cur.kind = "LIST"
        THEN IF value.t = "array"
             THEN UNION { PositionsBelow(value.items[i], cur.ofType,
                                         Append(steps, IndexStep(i - 1)), sch)
                          : i \in 1..Len(value.items) }
             ELSE {}
        ELSE IF cur.kind = "OBJECT" /\ value.t = "object"
        THEN UNION { PositionsBelow(GetProp(value, f.name), f.type,
                                    Append(steps, FieldStep(f.name)), sch)
                     : f \in { g \in Range(sch[cur.name].fields) :
                                 KeyIn(value, g.name) } }
        ELSE {}
  IN {[steps |-> steps, value |-> value, type |-> type]} \cup below

\* the positions of the request's data, once validate has returned
Positions ==
  PositionsBelow(vdata, ObjectT(vtypeName), <<>>, buildSchema(vschemaText))

DeclaredFields(p) == Range(buildSchema(vschemaText)[Unwrapped(p.type).name].fields)

\* how many entries of a diagnostics list carry the path
CountAt(list, path) == Cardinality({ i \in 1..Len(list) : list[i].path = path })

Returned == request = "validate" /\ vpc = "returned"

\* the data with every entry under the undeclared key "nickname" removed
RECURSIVE WithoutNicknames(_)
WithoutNicknames(value) ==
  IF value.t = "array"
  THEN Arr([i \in 1..Len(value.items) |-> WithoutNicknames(value.items[i])])
  ELSE IF value.t = "object"
  THEN Obj(SelectSeq([i \in 1..Len(value.entries) |->
                        [k |-> value.entries[i].k,
                         v |-> WithoutNicknames(value.entries[i].v)]],
                     LAMBDA e : e.k # "nickname"))
  ELSE value

\* C4: a returned result has valid = TRUE exactly when missingFields and
\* typeErrors are both empty, and valid is the same as for the data with its
\* undeclared ("nickname") keys taken out, at every level.
C4_ValidIffNoMissingNoTypeErrors ==
  Returned =>
    /\ vresult.valid = (vresult.missingFields = <<>> /\ vresult.typeErrors = <<>>)
    /\ vresult.valid =
         validateDataAgainstSchema(vschemaText, WithoutNicknames(vdata),
                                   vtypeName).valid

\* C4 witness: a returned result that reports an extra field and is valid
C4_Witness ==
  /\ Returned
  /\ vresult.extraFields # <<>>
  /\ vresult.valid

\* C5, as the claim states it: a returned result whose only diagnostics are
\* MissingFields of optional fields has valid = TRUE.
C5_OnlyRequiredMissingFails ==
  (/\ Returned
   /\ vresult.typeErrors = <<>>
   /\ vresult.extraFields = <<>>
   /\ \A i \in 1..Len(vresult.missingFields) :
         ~vresult.missingFields[i].required)
    => vresult.valid

\* C6, as the claim states it: under every object-typed position holding a
\* non-null, non-array object, each declared field whose key is not among
\* the object's keys gets exactly one MissingField, with required = TRUE
\* exactly when its type is NonNull, and each declared field whose key is
\* there (with a value that is not null) gets none; {} against
\* User { id: ID! name: String! } gets exactly the two for id and name.
C6_OneMissingFieldPerAbsentKey ==
  Returned =>
    /\ \A p \in Positions :
         ObjectPosition(p) =>
           \A f \in DeclaredFields(p) :
             LET path == AccessPath(Append(p.steps, FieldStep(f.name)))
             IN IF ~HasOwn(p.value, f.name)
                THEN /\ CountAt(vresult.missingFields, path) = 1
                     /\ \A i \in 1..Len(vresult.missingFields) :
                          vresult.missingFields[i].path = path =>
                            /\ vresult.missingFields[i].fieldName = f.name
                            /\ vresult.missingFields[i].required
                                 = (f.type.kind = "NON_NULL")
                ELSE NullOrUndefined(OwnValue(p.value, f.name))
                       \/ CountAt(vresult.missingFields, path) = 0
    /\ (vschemaText = "account" /\ vtypeName = "User" /\ vdata = Obj(<<>>)) =>
         /\ Len(vresult.missingFields) = 2
         /\ vresult.missingFields[1].fieldName = "id"
         /\ vresult.missingFields[2].fieldName = "name"
         /\ vresult.missingFields[1].required
         /\ vresult.missingFields[2].required

\* the paths a diagnostic of an object position's keys can carry
KeyPaths(keys) ==
  { AccessPath(Append(p.steps, FieldStep(k))) :
      p \in { q \in Positions : ObjectPosition(q) }, k \in keys }

\* C8: the path of every MissingField and TypeError is the access path of a
\* position or of a declared field under an object position, the path of
\* every ExtraField is the access path of its key under an object position,
\* each with the diagnostic's fieldName as its last field; and the
\* MissingField for title in { posts: [ {} ] } has the path posts[0].title.
C8_DiagnosticPathsAreAccessPaths ==
  Returned =>
    /\ \A i \in 1..Len(vresult.missingFields) :
         LET m == vresult.missingFields[i]
         IN \/ \E p \in Positions :
                 /\ p.steps # <<>>
                 /\ NullOrUndefined(p.value)
                 /\ p.type.kind = "NON_NULL"
                 /\ m.path = AccessPath(p.steps)
            \/ \E p \in Positions :
                 /\ ObjectPosition(p)
                 /\ \E f \in DeclaredFields(p) :
                      /\ f.name = m.fieldName
                      /\ ~HasOwn(p.value, f.name)
                      /\ m.path = AccessPath(Append(p.steps, FieldStep(f.name)))
    /\ \A i \in 1..Len(vresult.typeErrors) :
         \E p \in Positions :
           /\ vresult.typeErrors[i].path = AccessPath(p.steps)
           /\ vresult.typeErrors[i].actualType = p.value.t
    /\ \A i \in 1..Len(vresult.extraFields) :
         LET e == vresult.extraFields[i]
         IN \E p \in Positions :
              /\ ObjectPosition(p)
              /\ HasOwn(p.value, e.fieldName)
              /\ e.fieldName \notin { f.name : f \in DeclaredFields(p) }
              /\ e.path = AccessPath(Append(p.steps, FieldStep(e.fieldName)))
    /\ (/\ vschemaText = "blog" /\ vtypeName = "User"
        /\ vdata = Obj(<< [k |-> "posts", v |-> Arr(<< Obj(<<>>) >>)] >>)) =>
         /\ \E i \in 1..Len(vresult.missingFields) :
              vresult.missingFields[i].fieldName = "title"
         /\ \A i \in 1..Len(vresult.missingFields) :
              vresult.missingFields[i].fieldName = "title" =>
                vresult.missingFields[i].path = "posts[0].title"

\* C8 witness: the data { posts: [ {} ] } validated against User, the
\* MissingField for title being at posts[0].title
C8_Witness ==
  /\ Returned
  /\ vschemaText = "blog" /\ vtypeName = "User"
  /\ vdata = Obj(<< [k |-> "posts", v |-> Arr(<< Obj(<<>>) >>)] >>)
  /\ \E i \in 1..Len(vresult.missingFields) :
       vresult.missingFields[i].path = "posts[0].title"

\* the runtime type the claim's mapping gives a built-in scalar
MappedRuntimeType(scalarName) ==
  CASE scalarName \in {"Int", "Float"} -> "number"
    [] scalarName \in {"String", "ID"} -> "string"
    [] scalarName = "Boolean" -> "boolean"

BuiltInScalars == {"Int", "Float", "String", "ID", "Boolean"}

\* a position of a built-in scalar type that holds a value
ScalarPosition(p) ==
  /\ ~NullOrUndefined(p.value)
  /\ Unwrapped(p.type).kind = "SCALAR"
  /\ Unwrapped(p.type).name \in BuiltInScalars

\* C9: at every position of a built-in scalar type that holds a non-null
\* value, there is exactly one TypeError when the value's runtime type
\* differs from the mapping's, with the scalar's name as expectedType and
\* the runtime type as actualType, and none when it matches; { age: "30" }
\* against age: Int yields the one TypeError Int / string.
C9_ScalarTypeErrorsFollowMapping ==
  Returned =>
    /\ \A p \in Positions :
         ScalarPosition(p) =>
           LET path == AccessPath(p.steps)
               scalarName == Unwrapped(p.type).name
           IN IF p.value.t # MappedRuntimeType(scalarName)
              THEN /\ CountAt(vresult.typeErrors, path) = 1
                   /\ \A i \in 1..Len(vresult.typeErrors) :
                        vresult.typeErrors[i].path = path =>
                          /\ vresult.typeErrors[i].expectedType = scalarName
                          /\ vresult.typeErrors[i].actualType = p.value.t
              ELSE CountAt(vresult.typeErrors, path) = 0
    /\ (/\ vschemaText = "blog" /\ vtypeName = "User"
        /\ vdata = Obj(<< [k |-> "age", v |-> Str] >>)) =>
         /\ Len(vresult.typeErrors) = 1
         /\ vresult.typeErrors[1].expectedType = "Int"
         /\ vresult.typeErrors[1].actualType = "string"

\* C9 witness: { age: "30" } validated against User, with its TypeError
C9_Witness ==
  /\ Returned
  /\ vschemaText = "blog" /\ vtypeName = "User"
  /\ vdata = Obj(<< [k |-> "age", v |-> Str] >>)
  /\ Len(vresult.typeErrors) = 1
  /\ vresult.typeErrors[1].path = "age"

\* the steps one step below a position: any key of the data, any index
StepsBelow ==
  { FieldStep(DataKeys(vschemaText)[j]) : j \in 1..Len(DataKeys(vschemaText)) }
    \cup { IndexStep(i) : i \in 0..MaxNodes }

AllDiagnosticPaths ==
  { vresult.missingFields[i].path : i \in 1..Len(vresult.missingFields) }
    \cup { vresult.typeErrors[i].path : i \in 1..Len(vresult.typeErrors) }
    \cup { vresult.extraFields[i].path : i \in 1..Len(vresult.extraFields) }

\* C10: at every position holding null or undefined there is exactly one
\* MissingField, with required = TRUE, when the position's type is NonNull,
\* and no MissingField when it is nullable; no TypeError or ExtraField is at
\* that path and no diagnostic at a path one step below it; a null or
\* undefined root yields no diagnostic at all.
C10_NullAtPosition ==
  Returned =>
    /\ \A p \in Positions :
         (NullOrUndefined(p.value) /\ p.steps # <<>>) =>
           LET path == AccessPath(p.steps)
           IN /\ IF p.type.kind = "NON_NULL"
                 THEN /\ CountAt(vresult.missingFields, path) = 1
                      /\ \A i \in 1..Len(vresult.missingFields) :
                           vresult.missingFields[i].path = path =>
                             vresult.missingFields[i].required
                 ELSE CountAt(vresult.missingFields, path) = 0
              /\ CountAt(vresult.typeErrors, path) = 0
              /\ CountAt(vresult.extraFields, path) = 0
              /\ \A st \in StepsBelow :
                   AccessPath(Append(p.steps, st)) \notin AllDiagnosticPaths
    /\ NullOrUndefined(vdata) => AllDiagnosticPaths = {}

\* C10 witness: a returned result for data with a null at a NonNull position
\* and a null at a nullable position
C10_Witness ==
  /\ Returned
  /\ \E p \in Positions :
       NullOrUndefined(p.value) /\ p.steps # <<>> /\ p.type.kind = "NON_NULL"
  /\ \E p \in Positions :
       NullOrUndefined(p.value) /\ p.steps # <<>> /\ p.type.kind # "NON_NULL"

\* a list-typed position that holds a value
ListPosition(p) ==
  ~NullOrUndefined(p.value) /\ Unwrapped(p.type).kind = "LIST"

\* no diagnostic at the path
NothingAt(path) ==
  /\ CountAt(vresult.missingFields, path) = 0
  /\ CountAt(vresult.typeErrors, path) = 0
  /\ CountAt(vresult.extraFields, path) = 0

\* no diagnostic one step below the steps
NothingBelow(steps) ==
  \A st \in StepsBelow :
    AccessPath(Append(steps, st)) \notin AllDiagnosticPaths

\* what validating element number i of the list position p must report at
\* the element's own path and for the absent fields of an element object
ElementValidated(p, i) ==
  LET elemType == Unwrapped(p.type).ofType
      elem == p.value.items[i]
      steps == Append(p.steps, IndexStep(i - 1))
      path == AccessPath(steps)
  IN IF NullOrUndefined(elem)
     THEN /\ CountAt(vresult.missingFields, path)
               = (IF elemType.kind = "NON_NULL" THEN 1 ELSE 0)
          /\ CountAt(vresult.typeErrors, path) = 0
     ELSE IF Unwrapped(elemType).kind = "OBJECT"
     THEN IF elem.t = "object"
          THEN /\ NothingAt(path)
               /\ \A f \in Range(buildSchema(vschemaText)
                                   [Unwrapped(elemType).name].fields) :
                    ~KeyIn(elem, f.name) =>
                      CountAt(vresult.missingFields,
                              AccessPath(Append(steps, FieldStep(f.name)))) = 1
          ELSE /\ CountAt(vresult.typeErrors, path) = 1
               /\ \A k \in 1..Len(vresult.typeErrors) :
                    vresult.typeErrors[k].path = path =>
                      /\ vresult.typeErrors[k].expectedType
                           = Unwrapped(elemType).name
                      /\ vresult.typeErrors[k].actualType = elem.t
               /\ NothingBelow(steps)
     ELSE TRUE

C12_OneExtraFieldPerUndeclaredKey ==
  Returned =>
    \A p \in Positions :
      ObjectPosition(p) =>
        \A j \in 1..Len(p.value.entries) :
          LET key == p.value.entries[j].k
              steps == Append(p.steps, FieldStep(key))
              path == AccessPath(steps)
              objectTypeName == Unwrapped(p.type).name
          IN IF key \in { f.name : f \in DeclaredFields(p) }
             THEN CountAt(vresult.extraFields, path) = 0
             ELSE /\ CountAt(vresult.extraFields, path) = 1
                  /\ \A k \in 1..Len(vresult.extraFields) :
                       vresult.extraFields[k].path = path =>
                         /\ vresult.extraFields[k].fieldName = key
                         /\ vresult.extraFields[k].reason =
                              "Field '" \o key \o "' not found in type '"
                                \o objectTypeName \o "'"
                  /\ CountAt(vresult.missingFields, path) = 0
                  /\ CountAt(vresult.typeErrors, path) = 0
                  /\ NothingBelow(steps)

\* C12 witness: a returned result with an ExtraField of a nested object,
\* the undeclared key holding a value of its own
C12_Witness ==
  /\ Returned
  /\ \E p \in Positions :
       /\ ObjectPosition(p) /\ p.steps # <<>>
       /\ HasOwn(p.value, "nickname")
       /\ CountAt(vresult.extraFields,
                  AccessPath(Append(p.steps, FieldStep("nickname")))) = 1

\* the paths at which the positions of the data call for a MissingField: a
\* null or undefined value at a NonNull position, a declared field the
\* object does not have
ExpectedMissingPaths ==
  { AccessPath(p.steps) :
      p \in { q \in Positions :
                NullOrUndefined(q.value) /\ q.type.kind = "NON_NULL" } }
  \cup UNION { { AccessPath(Append(p.steps, FieldStep(f.name))) :
                   f \in { g \in DeclaredFields(p) : ~KeyIn(p.value, g.name) } }
               : p \in { q \in Positions : ObjectPosition(q) } }

\* the paths at which they call for a TypeError: a list position holding no
\* array, a built-in scalar position holding a value of another runtime
\* type, an object position holding no plain object
ExpectedTypeErrorPaths ==
  { AccessPath(p.steps) :
      p \in { q \in Positions :
                /\ ~NullOrUndefined(q.value)
                /\ \/ Unwrapped(q.type).kind = "LIST" /\ q.value.t # "array"
                   \/ /\ ScalarPosition(q)
                      /\ q.value.t # MappedRuntimeType(Unwrapped(q.type).name)
                   \/ Unwrapped(q.type).kind = "OBJECT" /\ q.value.t # "object" } }

\* the paths at which they call for an ExtraField: an undeclared key
ExpectedExtraPaths ==
  UNION { { AccessPath(Append(p.steps, FieldStep(p.value.entries[j].k))) :
              j \in { i \in 1..Len(p.value.entries) :
                        p.value.entries[i].k
                          \notin { f.name : f \in DeclaredFields(p) } } }
          : p \in { q \in Positions : ObjectPosition(q) } }

PathsOf(list) == { list[i].path : i \in 1..Len(list) }

C14_ThrowsOnlyOnRootType ==
  (request = "validate" /\ vpc # "call") =>
    LET sch == buildSchema(vschemaText)
        rootIsObject == vtypeName \in DOMAIN sch
                          /\ sch[vtypeName].kind = "OBJECT"
    IN /\ (vpc = "thrown") = ~rootIsObject
       /\ (vpc = "returned") = rootIsObject
       /\ vresult.thrown = ~rootIsObject
       /\ rootIsObject => DOMAIN vresult = {"thrown", "valid", "missingFields",
                                            "extraFields", "typeErrors"}
       /\ ~rootIsObject => DOMAIN vresult = {"thrown", "message"}

\* C14 witness: a call that threw because typeName names an enum
C14_Witness ==
  /\ request = "validate" /\ vpc = "thrown"
  /\ vtypeName \in DOMAIN buildSchema(vschemaText)
  /\ vresult.message = "Schema validation failed: Type '" \o vtypeName
                         \o "' is not an object type"

\* a position of enum type that holds a value
EnumPosition(p) ==
  ~NullOrUndefined(p.value) /\ Unwrapped(p.type).kind = "ENUM"

\* C15, as the claim states it: at a position of enum type a string value
\* gets no TypeError and a non-null value that is not a string gets one.
C15_EnumCheckedAsString ==
  Returned =>
    \A p \in Positions :
      EnumPosition(p) =>
        CountAt(vresult.typeErrors, AccessPath(p.steps))
          = (IF p.value.t = "string" THEN 0 ELSE 1)

\* the value with v put at the steps: as the value of the key, or in place
\* of the element
RECURSIVE SetAt(_, _, _)
SetAt(value, steps, v) ==
  IF steps = <<>> THEN v
  ELSE LET st == Head(steps)
       IN IF st.field = ""
          THEN Arr([i \in 1..Len(value.items) |->
                      IF i = st.index + 1
                      THEN SetAt(value.items[i], Tail(steps), v)
                      ELSE value.items[i]])
          ELSE IF HasOwn(value, st.field)
          THEN Obj([i \in 1..Len(value.entries) |->
                      IF value.entries[i].k = st.field
                      THEN [k |-> st.field,
                            v |-> SetAt(value.entries[i].v, Tail(steps), v)]
                      ELSE value.entries[i]])
          ELSE Obj(Append(value.entries, [k |-> st.field, v |-> v]))

\* the steps of the places a MissingField can be reported at
MissingPlaces ==
  { p.steps : p \in { q \in Positions : NullOrUndefined(q.value) } }
  \cup UNION { { Append(p.steps, FieldStep(f.name)) :
                   f \in { g \in DeclaredFields(p) : ~KeyIn(p.value, g.name) } }
               : p \in { q \in Positions : ObjectPosition(q) } }

Placeholders == {Str, Num, Bool, Obj(<<>>), Arr(<<>>)}

\* C16: for every MissingField m of a returned result and every non-null
\* placeholder, the data with the placeholder put at m.path, validated
\* again against the same schema and type, has no MissingField at m.path.
C16_FixedFieldNoLongerMissing ==
  Returned =>
    \A i \in 1..Len(vresult.missingFields) :
      LET m == vresult.missingFields[i]
      IN /\ \E steps \in MissingPlaces : AccessPath(steps) = m.path
         /\ \A steps \in MissingPlaces :
              AccessPath(steps) = m.path =>
                \A v \in Placeholders :
                  LET again == validateDataAgainstSchema(
                                 vschemaText, SetAt(vdata, steps, v), vtypeName)
                  IN /\ ~again.thrown
                     /\ CountAt(again.missingFields, m.path) = 0

\* C16 witness: a returned result reporting a null list element and an
\* absent field as missing
C16_Witness ==
  /\ Returned
  /\ \E i, j \in 1..Len(vresult.missingFields) :
       /\ vresult.missingFields[i].path = "posts[0]"
       /\ vresult.missingFields[j].path = "age"

\* the fragment name the registry gives the a-th signature of a type name
VariantName(typeName, a) ==
  IF a = 1 THEN typeName \o "Fragment"
  ELSE typeName \o "Fragment_" \o ToString(a)

\* the signatures createFragment has computed so far for the type name:
\* those of the calls in progress and of the definitions the registry
\* could have met
RegistryWellNumbered ==
  /\ DOMAIN fragmentCounters = DOMAIN fragmentCache
  /\ \A t \in DOMAIN fragmentCache :
       LET cached == fragmentCache[t]
       IN /\ Len(cached) >= 1
          /\ fragmentCounters[t] = Len(cached)
          /\ \A a \in 1..Len(cached) :
               /\ cached[a].fragmentName = VariantName(t, a)
               /\ \E i \in 1..Len(schema) :
                    /\ schema[i].name = t /\ schema[i].fieldsPresent
                    /\ cached[a].signature = detailedSignature(t, schema[i])
               /\ \A b \in 1..Len(cached) :
                    a # b => /\ cached[a].signature # cached[b].signature
                             /\ cached[a].fragmentName # cached[b].fragmentName
          /\ \A u \in DOMAIN fragmentCache :
               u # t => \A a \in 1..Len(cached), b \in 1..Len(fragmentCache[u]) :
                          cached[a].fragmentName # fragmentCache[u][b].fragmentName
  /\ \A k \in 1..Len(stack) :
       /\ stack[k].typeName \in DOMAIN fragmentCache
       /\ \E a \in 1..Len(fragmentCache[stack[k].typeName]) :
            fragmentCache[stack[k].typeName][a]
              = [signature |-> stack[k].signature,
                 fragmentName |-> stack[k].fragmentName]
  /\ \A n \in DOMAIN fragments :
       \E a \in 1..Len(Registry(fragments[n].on)) :
         Registry(fragments[n].on)[a].fragmentName = n

\* a step leaves every entry of the registry in place and adds at most one
\* entry, at the end of one type name's list
RegistryOnlyAppends ==
  /\ DOMAIN fragmentCache \subseteq DOMAIN fragmentCache'
  /\ \A t \in DOMAIN fragmentCache :
       /\ Len(fragmentCache'[t]) \in {Len(fragmentCache[t]),
                                      Len(fragmentCache[t]) + 1}
       /\ SubSeq(fragmentCache'[t], 1, Len(fragmentCache[t])) = fragmentCache[t]
  /\ \A t \in DOMAIN fragmentCache' \ DOMAIN fragmentCache :
       Len(fragmentCache'[t]) = 1

\* C17: at every point of a run the registry of each type name holds one
\* entry per signature met so far, named TFragment, TFragment_2, ...,
\* TFragment_k in the order the signatures were first met (entries are only
\* ever appended), the counter of T is k, no two signatures of T share a
\* name and no name belongs to two type names.
C17_RegistryNumbering ==
  /\ [](request = "generate" => RegistryWellNumbered)
  /\ [][RegistryOnlyAppends]_vars

\* C17 witness: in the middle of a run, a registry with two signatures of
\* one type name, the second named TFragment_2 and just registered
C17_Witness ==
  /\ request = "generate" /\ stack # <<>>
  /\ \E t \in DOMAIN fragmentCache :
       /\ Len(fragmentCache[t]) = 2
       /\ fragmentCounters[t] = 2
       /\ fragmentCache[t][2].fragmentName = t \o "Fragment_2"
       /\ Top.fragmentName = t \o "Fragment_2"

\* a definition without fields: the field list absent or empty
Fieldless(d) == ~d.fieldsPresent \/ d.fields = <<>>

\* the type name of the field a selection entry of a fragment stands for,
\* "" when no definition of the fragment's type has a field of that name
SelectedFieldTypeNames(fragmentName, k) ==
  UNION { { getTypeName(d.fields[j].type) :
              j \in { i \in 1..Len(d.fields) :
                        d.fields[i].name
                          = fragments[fragmentName].selection[k].name } }
          : d \in { e \in Range(schema) :
                      e.name = fragments[fragmentName].on /\ e.fieldsPresent } }

\* C18, as the claim states it: when generateFragments has returned no
\* fragment was built from a definition without fields (no stored fragment
\* has an empty selection) and every field whose type name resolves to a
\* definition without fields is selected bare.
C18_FieldlessTypeGetsNoFragment ==
  gpc = "done" =>
    \A n \in DOMAIN fragments :
      /\ fragments[n].selection # <<>>
      /\ \A k \in 1..Len(fragments[n].selection) :
           (\E t \in SelectedFieldTypeNames(n, k) :
               /\ findType(schema, t) # NoTypeDef
               /\ Fieldless(findType(schema, t)))
             => fragments[n].selection[k].spread = ""

(***************************************************************************)
(* generateFragments as a function of its arguments: the same code, run to *)
(* its end on any schema list and any maxDepth.  st is the state of the    *)
(* call: fragments, fragmentCache and fragmentCounters.                    *)
(***************************************************************************)
RECURSIVE createFragment(_, _, _, _, _, _, _)
RECURSIVE mapFields(_, _, _, _, _, _, _, _)

\* createFragment: the value returned ("" for null) and the state after it
createFragment(types, md, typeName, depth, visitedTypes, typeDefToUse, st) ==
  LET typeDef == IF typeDefToUse # NoTypeDef THEN typeDefToUse
                 ELSE findType(types, typeName)
  IN IF typeName = "" \/ depth > md \/ typeName \in visitedTypes
     THEN [returned |-> "", st |-> st]
     ELSE IF typeDef = NoTypeDef \/ ~typeDef.fieldsPresent
     THEN [returned |-> "", st |-> st]
     ELSE
       LET signature == detailedSignature(typeName, typeDef)
           found == findOrCreateFragmentName(typeName, signature, st.cache,
                                             st.counters)
           registered == [st EXCEPT !.cache = found.cache,
                                    !.counters = found.counters]
           mapped == mapFields(types, md, typeDef, 1, depth,
                               visitedTypes \cup {typeName}, <<>>, registered)
       IN IF found.fragmentName \in DOMAIN st.fragments
          THEN [returned |-> found.fragmentName, st |-> registered]
          ELSE [returned |-> found.fragmentName,
                st |-> [mapped.st EXCEPT !.fragments =
                          MapSet(@, found.fragmentName,
                                 FragmentOf(found.fragmentName, typeName,
                                            mapped.fields))]]

\* typeDef.fields.map from field i on: the fields array and the state after
mapFields(types, md, typeDef, i, depth, newVisitedTypes, fields, st) ==
  IF i > Len(typeDef.fields) THEN [fields |-> fields, st |-> st]
  ELSE
    LET field == typeDef.fields[i]
        nested == createFragment(types, md, getTypeName(field.type), depth + 1,
                                 newVisitedTypes, NoTypeDef, st)
    IN IF /\ ~genIsScalarType(field.type) /\ genIsObjectType(field.type)
          /\ getTypeName(field.type) # "" /\ depth < md
       THEN mapFields(types, md, typeDef, i + 1, depth, newVisitedTypes,
                      Append(fields, Selected(field.name, nested.returned)),
                      nested.st)
       ELSE mapFields(types, md, typeDef, i + 1, depth, newVisitedTypes,
                      Append(fields, Selected(field.name, "")), st)

\* schema.types.forEach from type i on
RECURSIVE forEachType(_, _, _, _)
forEachType(types, md, i, st) ==
  IF i > Len(types) THEN st
  ELSE IF /\ types[i].kind = "OBJECT" /\ types[i].fieldsPresent
          /\ Len(types[i].fields) > 0
       THEN forEachType(types, md, i + 1,
                        createFragment(types, md, types[i].name, 0, {},
                                       types[i], st).st)
       ELSE forEachType(types, md, i + 1, st)

\* generateFragments(schema, maxDepth): the fragments returned
generateFragments(types, md) ==
  forEachType(types, md, 1,
              [fragments |-> EmptyMap, cache |-> EmptyMap,
               counters |-> EmptyMap]).fragments

\* a field that is no scalar and whose named type no definition of the
\* schema list carries
Dangling(types, field) ==
  /\ ~genIsScalarType(field.type)
  /\ \A i \in 1..Len(types) : types[i].name # getTypeName(field.type)

\* the schema list with every dangling field turned into a scalar field of
\* the same type name
Substituted(types) ==
  [i \in 1..Len(types) |->
     [types[i] EXCEPT !.fields =
        [j \in 1..Len(types[i].fields) |->
           IF Dangling(types, types[i].fields[j])
           THEN Field(types[i].fields[j].name,
                      ScalarT(getTypeName(types[i].fields[j].type)))
           ELSE types[i].fields[j]]]]

\* the names of the fragments registered for a definition: the registry
\* entries of its type name that carry its signature
FragmentNamesOf(d) ==
  { CacheGet(fragmentCache, d.name)[e].fragmentName :
      e \in { k \in 1..Len(CacheGet(fragmentCache, d.name)) :
                CacheGet(fragmentCache, d.name)[k].signature
                  = detailedSignature(d.name, d) } }

HasDanglingField(types) ==
  \E i \in 1..Len(types) : \E j \in 1..Len(types[i].fields) :
    Dangling(types, types[i].fields[j])

\* the field the frame on top is about to map is a dangling one
AtDanglingField ==
  /\ stack # <<>>
  /\ Top.fieldIdx <= Len(Top.typeDef.fields)
  /\ Dangling(schema, Top.typeDef.fields[Top.fieldIdx])

\* C19: on a schema list with a field whose named type has no definition,
\* the callback mapping such a field completes at once (it yields a field
\* without building anything), and when generateFragments has returned,
\* every such field is selected bare in the fragment of its definition,
\* every OBJECT definition with fields has its fragment, and the fragments
\* are exactly those the call yields on the schema list in which these
\* fields are scalars.
C19_DanglingFieldIsBare ==
  (request = "generate" /\ HasDanglingField(schema)) =>
    /\ AtDanglingField => ENABLED (MapBareField \/ MapObjectFieldReturned)
    /\ gpc = "done" =>
         /\ fragments = generateFragments(Substituted(schema), maxDepth)
         /\ \A i \in 1..Len(schema) :
              IsObjectWithFields(schema[i]) =>
                /\ FragmentNamesOf(schema[i]) # {}
                /\ \A n \in FragmentNamesOf(schema[i]) :
                     /\ n \in DOMAIN fragments
                     /\ \A j \in 1..Len(schema[i].fields) :
                          Dangling(schema, schema[i].fields[j]) =>
                            \E k \in 1..Len(fragments[n].selection) :
                              fragments[n].selection[k]
                                = Selected(schema[i].fields[j].name, "")

\* a call has returned on a schema list with a dangling field in one
\* definition and a fragment of another definition next to it
C19_Witness ==
  /\ request = "generate" /\ gpc = "done" /\ maxDepth >= 1
  /\ HasDanglingField(schema)
  /\ Cardinality(DOMAIN fragments) >= 2
  /\ \E i \in 1..Len(schema) : \E j \in 1..Len(schema[i].fields) :
       /\ IsObjectWithFields(schema[i])
       /\ Dangling(schema, schema[i].fields[j])
       /\ \E n \in FragmentNamesOf(schema[i]) : n \in DOMAIN fragments

\* the outcome of a createFragment call that returns null at once, having
\* registered and built nothing
ReturnsNull(e) ==
  /\ ~e.build /\ e.returned = "" /\ e.frame = <<>>
  /\ e.cache = fragmentCache /\ e.counters = fragmentCounters

\* no selection entry spreads a fragment
AllBare(selection) ==
  \A k \in 1..Len(selection) : selection[k].spread = ""

\* the field the frame on top is about to map names an object type that is
\* among the visited ones, at a depth where the nested call is made
NestedCallOnVisited ==
  /\ request = "generate" /\ stack # <<>>
  /\ Top.fieldIdx <= Len(Top.typeDef.fields)
  /\ ~genIsScalarType(Top.typeDef.fields[Top.fieldIdx].type)
  /\ genIsObjectType(Top.typeDef.fields[Top.fieldIdx].type)
  /\ Top.depth < maxDepth
  /\ getTypeName(Top.typeDef.fields[Top.fieldIdx].type) \in Top.visitedTypes

DepthAndVisitedBarCalls ==
  request = "generate" =>
    /\ \A typeName \in GenTypeNames :
       \A depth \in 0..(MaxDepthArg + 1) :
       \A visitedTypes \in SUBSET GenTypeNames :
       \A typeDefToUse \in {NoTypeDef} \cup Range(schema) :
         (depth > maxDepth \/ typeName \in visitedTypes) =>
           /\ ReturnsNull(createFragmentEntry(typeName, depth, visitedTypes,
                                              typeDefToUse, fragmentCache,
                                              fragmentCounters, fragments))
           /\ createFragment(schema, maxDepth, typeName, depth, visitedTypes,
                             typeDefToUse,
                             [fragments |-> fragments,
                              cache |-> fragmentCache,
                              counters |-> fragmentCounters])
                = [returned |-> "",
                   st |-> [fragments |-> fragments, cache |-> fragmentCache,
                           counters |-> fragmentCounters]]
    /\ \A i \in 1..Len(stack) :
         /\ stack[i].depth = i - 1
         /\ stack[i].depth <= maxDepth
         /\ stack[i].depth = maxDepth => AllBare(stack[i].fields)
    /\ maxDepth = 0 =>
         \A n \in DOMAIN fragments : AllBare(fragments[n].selection)

NestedCallOnVisitedYieldsBare ==
  NestedCallOnVisited =>
    /\ stack' = Append(Below,
                       Mapped(Top, Selected(
                                     Top.typeDef.fields[Top.fieldIdx].name,
                                     "")))
    /\ UNCHANGED <<fragments, fragmentCache, fragmentCounters>>

\* C20: in every state of a generateFragments call, createFragment invoked
\* with a depth above maxDepth or with a visited type name returns null and
\* leaves the fragments and the registry as they are; every fragment under
\* construction is at a depth of at most maxDepth; a fragment under
\* construction at depth maxDepth has bare fields only; with maxDepth = 0
\* every fragment built has bare fields only.  And the step that maps a
\* field naming a visited type appends the bare field name and builds
\* nothing.
C20_DepthAndVisitedBound ==
  /\ []DepthAndVisitedBarCalls
  /\ [][NestedCallOnVisitedYieldsBare]_vars

\* a fragment is under construction at depth maxDepth >= 1 and a field of
\* it whose type is a definition with fields has been mapped to its bare
\* name, below a frame that is waiting for it
C20_Witness ==
  /\ request = "generate" /\ maxDepth >= 1 /\ Len(stack) = maxDepth + 1
  /\ Top.depth = maxDepth
  /\ \E k \in 1..Len(Top.fields) :
       /\ genIsObjectType(Top.typeDef.fields[k].type)
       /\ ~genIsScalarType(Top.typeDef.fields[k].type)
       /\ IsObjectWithFields(findType(schema,
                                      getTypeName(Top.typeDef.fields[k].type)))
       /\ Top.fields[k] = Selected(Top.typeDef.fields[k].name, "")

\* a step keeps every stored fragment as it is: the keys of fragments only
\* grow and no source string stored under a key changes
FragmentsAppendOnly ==
  request = "generate" =>
    /\ DOMAIN fragments \subseteq DOMAIN fragments'
    /\ \A n \in DOMAIN fragments : fragments'[n] = fragments[n]

\* C23: within a generateFragments run no step changes or removes a
\* fragment that has been stored, and the set of fragment names only grows.
C23_FragmentsAppendOnly == [][FragmentsAppendOnly]_vars

\* a run in progress has stored a fragment from inside a call that is
\* still to store its own, and the calling frame spreads it
C23_Witness ==
  /\ request = "generate" /\ gpc = "loop" /\ stack # <<>>
  /\ Cardinality(DOMAIN fragments) >= 1
  /\ Top.fragmentName \notin DOMAIN fragments
  /\ \E k \in 1..Len(Top.fields) : Top.fields[k].spread \in DOMAIN fragments

\* the fragment names a stored fragment spreads
Spreads(n) ==
  { fragments[n].selection[k].spread : k \in 1..Len(fragments[n].selection) }
    \ {""}

\* C27: the map of fragments is closed under spreads, at the end of a run
\* and at every point before it: every fragment spread in the body of a
\* stored fragment is itself stored.
C27_FragmentsClosedUnderSpreads ==
  request = "generate" =>
    \A n \in DOMAIN fragments : Spreads(n) \subseteq DOMAIN fragments

\* a run has returned a map in which a fragment spreads another one
C27_Witness ==
  /\ request = "generate" /\ gpc = "done"
  /\ \E n \in DOMAIN fragments : \E m \in Spreads(n) :
       m # n /\ m \in DOMAIN fragments

\* the fragments reached from the fragments of names by following spreads
\* through the map n times
RECURSIVE SpreadReach(_, _)
SpreadReach(names, n) ==
  IF n = 0 THEN names
  ELSE SpreadReach(UNION { Spreads(m) : m \in names \cap DOMAIN fragments },
                   n - 1)

\* no stored fragment reaches itself by following spreads
SpreadGraphAcyclic ==
  request = "generate" =>
    \A n \in DOMAIN fragments :
      \A k \in 1..Cardinality(DOMAIN fragments) :
        n \notin SpreadReach({n}, k)

\* a fragment stored by a step spreads only fragments stored before the step
StoredAfterItsSpreads ==
  request = "generate" =>
    \A n \in DOMAIN fragments' \ DOMAIN fragments :
      { fragments'[n].selection[k].spread :
          k \in 1..Len(fragments'[n].selection) } \ {""}
        \subseteq DOMAIN fragments

\* C28: in every state of a run no fragment of the map reaches itself by
\* following spreads, and every step that stores a fragment stores one
\* whose spreads all name fragments stored before that step.
C28_SpreadGraphAcyclic ==
  /\ []SpreadGraphAcyclic
  /\ [][StoredAfterItsSpreads]_vars

\* a run has returned on two definitions that refer to each other: one of
\* the two fragments spreads the other and the other selects its field bare
C28_Witness ==
  /\ request = "generate" /\ gpc = "done" /\ Len(schema) = 2
  /\ schema[1].name # schema[2].name
  /\ \E k \in 1..Len(schema[1].fields) :
       getTypeName(schema[1].fields[k].type) = schema[2].name
  /\ \E k \in 1..Len(schema[2].fields) :
       getTypeName(schema[2].fields[k].type) = schema[1].name
  /\ \E n, m \in DOMAIN fragments :
       /\ n # m /\ m \in Spreads(n) /\ n \notin Spreads(m)

\* the permutations of 1..n
IndexPermutations(n) ==
  { p \in [1..n -> 1..n] : \A i, j \in 1..n : i # j => p[i] # p[j] }

\* the reorderings of a schema list that keep the definitions of one name
\* in their relative order
Reorderings(types) ==
  { [i \in 1..Len(types) |-> types[p[i]]] :
      p \in { q \in IndexPermutations(Len(types)) :
                \A i, j \in 1..Len(types) :
                  (i < j /\ types[q[i]].name = types[q[j]].name)
                    => q[i] < q[j] } }

\* C29, as the claim states it: when generateFragments has returned, the
\* fragments are those the call yields on every reordering of the schema
\* list that keeps same-named definitions in their relative order.
C29_IndependentOfListOrder ==
  (request = "generate" /\ gpc = "done") =>
    \A reordered \in Reorderings(schema) :
      generateFragments(reordered, maxDepth) = fragments

(***************************************************************************)
(* The functions around the two engines.  Each is applied by one step to   *)
(* the arguments in call; the engines' variables stay idle meanwhile.      *)
(***************************************************************************)
EnginesIdle ==
  /\ vschemaText = "" /\ vdata = Undefined /\ vtypeName = ""
  /\ vpc = "idle" /\ vresult = NoResult
  /\ schema = <<>> /\ maxDepth = 0 /\ fragments = <<>>
  /\ fragmentCache = <<>> /\ fragmentCounters = <<>>
  /\ stack = <<>> /\ typeIdx = 1 /\ gpc = "idle"

\* a string together with its UTF-16 code units
Text(text, codes) == [text |-> text, codes |-> codes]

RECURSIVE JoinCodes(_, _)
JoinCodes(codes, sep) ==
  IF codes = <<>> THEN <<>>
  ELSE IF Len(codes) = 1 THEN codes[1]
  ELSE codes[1] \o sep \o JoinCodes(Tail(codes), sep)

\* generateTypeSignature: the signature of the definition name lookup finds
\* for typeName, nested signatures included
RECURSIVE generateTypeSignature(_, _, _, _)
generateTypeSignature(types, typeName, depth, visitedForSig) ==
  LET typeDef == findType(types, typeName)
      fieldSignature(field) ==
        LET fieldTypeName == getTypeName(field.type)
            plain == Text(field.name \o ":" \o fieldTypeName,
                          CodeUnits(field.name) \o <<58>>
                            \o CodeUnits(fieldTypeName))
            nestedSig == generateTypeSignature(types, fieldTypeName, depth + 1,
                                               visitedForSig \cup {typeName})
        IN IF genIsScalarType(field.type) THEN plain
           ELSE IF genIsObjectType(field.type) /\ fieldTypeName # ""
           THEN Text(field.name \o ":" \o nestedSig.text,
                     CodeUnits(field.name) \o <<58>> \o nestedSig.codes)
           ELSE plain
      fieldSignatures ==
        SortTokens([i \in 1..Len(typeDef.fields) |->
                      fieldSignature(typeDef.fields[i])])
  IN IF typeName = "" \/ depth > 3 \/ typeName \in visitedForSig
     THEN Text(typeName, CodeUnits(typeName))
     ELSE IF typeDef = NoTypeDef \/ ~typeDef.fieldsPresent
     THEN Text(typeName, CodeUnits(typeName))
     ELSE Text(typeName \o "["
                 \o Join([i \in 1..Len(fieldSignatures) |->
                            fieldSignatures[i].text], ",")
                 \o "]",
               CodeUnits(typeName) \o <<91>>
                 \o JoinCodes([i \in 1..Len(fieldSignatures) |->
                                 fieldSignatures[i].codes], <<44>>)
                 \o <<93>>)

\* the field lists that list the fields of a given list in some order
FieldListReorderings(fields) ==
  { [i \in 1..Len(fields) |-> fields[p[i]]] :
      p \in IndexPermutations(Len(fields)) }

\* the schema lists that differ from a given one in the order in which the
\* definitions list their fields
RECURSIVE FieldReorderings(_)
FieldReorderings(types) ==
  IF types = <<>> THEN {<<>>}
  ELSE { <<[Head(types) EXCEPT !.fields = fs]>> \o rest :
           <<fs, rest>> \in FieldListReorderings(Head(types).fields)
                              \X FieldReorderings(Tail(types)) }

\* the signatures of a schema list: the recursive signature of every type
\* name and the per-instance signature of every definition
SignaturesOf(types) ==
  [recursive |-> [t \in GenTypeNames |->
                    generateTypeSignature(types, t, 0, {}).text],
   instance |-> [i \in 1..Len(types) |->
                   detailedSignature(types[i].name, types[i])]]

InitSignatures ==
  /\ request = "signatures"
  /\ call \in { [fn |-> "signatures", types |-> types, reordered |-> reordered] :
                  <<types, reordered>> \in
                    UNION { {types} \X FieldReorderings(types) :
                              types \in GenSchemas } }
  /\ ret = NoCall
  /\ EnginesIdle

\* the signatures of the two schema lists are computed
Signatures ==
  /\ request = "signatures" /\ ret = NoCall
  /\ ret' = [of |-> SignaturesOf(call.types),
             ofReordered |-> SignaturesOf(call.reordered)]
  /\ UNCHANGED <<request, call, vvars, gvars>>

\* C24: whatever the order in which the definitions of a schema list list
\* their fields, the recursive signature of every type name and the
\* per-instance signature of every definition are the same.
C24_SignatureIgnoresFieldOrder ==
  (request = "signatures" /\ ret # NoCall) => ret.of = ret.ofReordered

\* the signatures were computed for a definition with two fields, in both
\* orders, one of the fields carrying a nested signature
C24_Witness ==
  /\ request = "signatures" /\ ret # NoCall
  /\ \E i \in 1..Len(call.types) :
       /\ Len(call.types[i].fields) = 2
       /\ call.types[i].fields # call.reordered[i].fields
       /\ findType(call.types, call.types[i].name) = call.types[i]
       /\ ret.of.recursive[call.types[i].name] # ret.of.instance[i]

(***************************************************************************)
(* buildCompleteQueryWithFragments.  A source text is a sequence of        *)
(* tokens: words (names, braces, the blank lines between definitions) and  *)
(* fragment spreads, which is what the function's regular expression       *)
(* tells apart.                                                            *)
(***************************************************************************)
Word(w) == [kind |-> "word", text |-> w]
Spread(n) == [kind |-> "spread", text |-> n]

\* the text of a fragment: `fragment N on T { f g { ...X } }`
FragmentTokens(name, frag) ==
  <<Word("fragment"), Word(name), Word("on"), Word(frag.on), Word("{")>>
    \o Flatten([k \in 1..Len(frag.selection) |->
                  IF frag.selection[k].spread # ""
                  THEN <<Word(frag.selection[k].name), Word("{"),
                         Spread(frag.selection[k].spread), Word("}")>>
                  ELSE <<Word(frag.selection[k].name)>>])
    \o <<Word("}")>>

\* queryString.match(/\.\.\.(\w+)/g).map(ref => ref.replace('...', '')):
\* the names spread in a text, in the order and number of their occurrences
RECURSIVE fragmentNamesIn(_)
fragmentNamesIn(tokens) ==
  IF tokens = <<>> THEN <<>>
  ELSE IF Head(tokens).kind = "spread"
       THEN <<Head(tokens).text>> \o fragmentNamesIn(Tail(tokens))
       ELSE fragmentNamesIn(Tail(tokens))

\* names.filter(name => fragments[name])
RECURSIVE FilterPresent(_, _)
FilterPresent(names, frags) ==
  IF names = <<>> THEN <<>>
  ELSE IF Head(names) \in DOMAIN frags
       THEN <<Head(names)>> \o FilterPresent(Tail(names), frags)
       ELSE FilterPresent(Tail(names), frags)

\* array.join('\n\n') on texts
RECURSIVE JoinTokens(_)
JoinTokens(texts) ==
  IF texts = <<>> THEN <<>>
  ELSE IF Len(texts) = 1 THEN texts[1]
  ELSE texts[1] \o <<Word("\n\n")>> \o JoinTokens(Tail(texts))

\* buildCompleteQueryWithFragments(queryString, fragments)
buildCompleteQueryWithFragments(queryString, frags) ==
  LET fragmentNames == FilterPresent(fragmentNamesIn(queryString), frags)
      fragmentDefinitions ==
        JoinTokens([i \in 1..Len(fragmentNames) |->
                      FragmentTokens(fragmentNames[i], frags[fragmentNames[i]])])
  IN IF queryString = <<>> THEN <<>>
     ELSE IF fragmentDefinitions # <<>>
     THEN queryString \o <<Word("\n\n")>> \o fragmentDefinitions
     ELSE queryString

\* the fragment names an operation text may spread; CFragment is in no map
SpreadNames == {"AFragment", "BFragment", "CFragment"}

\* operation texts: `query q { a { ...X } }` and
\* `query q { a { ...X } b { ...Y } }`
QueryStrings ==
  { <<Word("query"), Word("q"), Word("{"), Word("a"), Word("{"), Spread(n),
      Word("}"), Word("}")>> : n \in SpreadNames }
  \cup
  { <<Word("query"), Word("q"), Word("{"), Word("a"), Word("{"), Spread(n),
      Word("}"), Word("b"), Word("{"), Spread(m), Word("}"), Word("}")>> :
      <<n, m>> \in SpreadNames \X SpreadNames }

\* fragment maps: AFragment and BFragment, each absent, bare, or spreading
\* the other
FragmentBodies(typeName, other) ==
  { FragmentOf(typeName \o "Fragment", typeName, <<Selected("x", "")>>),
    FragmentOf(typeName \o "Fragment", typeName,
               <<Selected("y", other \o "Fragment")>>) }

FragmentMaps ==
  { [n \in {} |-> 0] }
  \cup { [n \in {"AFragment"} |-> a] : a \in FragmentBodies("A", "B") }
  \cup { [n \in {"BFragment"} |-> b] : b \in FragmentBodies("B", "A") }
  \cup { [n \in {"AFragment", "BFragment"} |->
            IF n = "AFragment" THEN ab[1] ELSE ab[2]] :
         ab \in FragmentBodies("A", "B") \X FragmentBodies("B", "A") }

InitCompleteQuery ==
  /\ request = "completeQuery"
  /\ call \in { [fn |-> "completeQuery", queryString |-> q, fragments |-> f] :
                  <<q, f>> \in QueryStrings \X FragmentMaps }
  /\ ret = NoCall
  /\ EnginesIdle

CompleteQuery ==
  /\ request = "completeQuery" /\ ret = NoCall
  /\ ret' = buildCompleteQueryWithFragments(call.queryString, call.fragments)
  /\ UNCHANGED <<request, call, vvars, gvars>>

\* the number of definitions of a fragment name in a text
DefinitionCount(tokens, name) ==
  Cardinality({ i \in 1..(Len(tokens) - 1) :
                  tokens[i] = Word("fragment") /\ tokens[i + 1] = Word(name) })

\* C26, as the claim states it: the text returned contains exactly one
\* definition of every fragment of the map that is spread anywhere in it,
\* in the operation or in an appended definition.
C26_CompleteDocument ==
  (request = "completeQuery" /\ ret # NoCall) =>
    \A n \in Range(fragmentNamesIn(ret)) \cap DOMAIN call.fragments :
      DefinitionCount(ret, n) = 1

(***************************************************************************)
(* The validate-data route: validateDataAgainstSchema followed by          *)
(* formatValidationReport.  Of the report only the headline (its first     *)
(* line) is modelled.                                                      *)
(***************************************************************************)
\* largest number of nodes of the data a report is made for
MaxReportNodes == 2

\* formatValidationReport(result): the headline pushed first
formatValidationReport(result) ==
  LET requiredMissing ==
        Cardinality({ i \in 1..Len(result.missingFields) :
                        result.missingFields[i].required })
      optionalMissing ==
        Cardinality({ i \in 1..Len(result.missingFields) :
                        ~result.missingFields[i].required })
  IN IF result.valid /\ optionalMissing = 0
     THEN "Validation passed! Your data matches the schema perfectly."
     ELSE IF /\ requiredMissing = 0 /\ Len(result.typeErrors) = 0
             /\ optionalMissing > 0
     THEN "Validation passed with warnings!"
     ELSE "Validation failed! Issues found:"

\* the data posted with a schema: every value of at most MaxReportNodes nodes
ReportData(schemaText) ==
  UNION { ValuesOfSize(n, DataKeys(schemaText)) : n \in 1..MaxReportNodes }

InitReport ==
  /\ request = "report"
  /\ call \in { [fn |-> "report", schemaText |-> s, data |-> d, typeName |-> t] :
                  <<s, d, t>> \in
                    UNION { {s} \X ReportData(s) \X TypeNames(s) :
                              s \in SchemaTexts } }
  /\ ret = NoCall
  /\ EnginesIdle

\* the route's answer: the result and its report, or the error thrown
Report ==
  /\ request = "report" /\ ret = NoCall
  /\ \E result \in {validateDataAgainstSchema(call.schemaText, call.data,
                                              call.typeName)} :
       ret' = IF result.thrown
              THEN [status |-> 500, error |-> result.message]
              ELSE [status |-> 200, result |-> result,
                    report |-> formatValidationReport(result)]
  /\ UNCHANGED <<request, call, vvars, gvars>>

\* C30, as the claim states it: the headline of the report reads
\* 'Validation failed' exactly when the result's valid flag is false, and
\* 'Validation passed' only when it is true.
C30_HeadlineAgreesWithValid ==
  (request = "report" /\ ret # NoCall /\ ret.status = 200) =>
    (ret.report = "Validation failed! Issues found:") = ~ret.result.valid

(***************************************************************************)
(* The generate route: generateFragments, then one operation text per      *)
(* field of the root types.  An operation text is a sequence of tokens:    *)
(* words, variables ($name) and fragment spreads (...Name).                *)
(***************************************************************************)
Variable(n) == [kind |-> "variable", text |-> n]

InterfaceT(n) == [kind |-> "INTERFACE", name |-> n]
UnionT(n) == [kind |-> "UNION", name |-> n]

\* an argument of a field; defaultValue "" stands for null
Argument(n, t, default) == [name |-> n, type |-> t, defaultValue |-> default]

\* a field of a root type, with its arguments
RootField(n, args, t) == [name |-> n, args |-> args, type |-> t]

\* str.charAt(0).toLowerCase() + str.slice(1), on the argument names used
toCamelCase(str) ==
  CASE str = "Id" -> "id"
    [] str = "id" -> "id"
    [] str = "first" -> "first"

\* resolveType: the type in GraphQL notation
RECURSIVE resolveType(_)
resolveType(type) ==
  IF type.kind = "NON_NULL" THEN resolveType(type.ofType) \o "!"
  ELSE IF type.kind = "LIST" THEN "[" \o resolveType(type.ofType) \o "]"
  ELSE IF type.name # "" THEN type.name ELSE "String"

\* array.join(", ") on token sequences
RECURSIVE JoinWithComma(_)
JoinWithComma(texts) ==
  IF texts = <<>> THEN <<>>
  ELSE IF Len(texts) = 1 THEN texts[1]
  ELSE texts[1] \o <<Word(",")>> \o JoinWithComma(Tail(texts))

\* buildArgumentDefinitions: `$variableName: argType = defaultValue`
buildArgumentDefinitions(args) ==
  JoinWithComma([i \in 1..Len(args) |->
    <<Variable(toCamelCase(args[i].name)), Word(":"),
      Word(resolveType(args[i].type))>>
      \o (IF args[i].defaultValue # ""
          THEN <<Word("="), Word(args[i].defaultValue)>> ELSE <<>>)])

\* buildArgumentUsage: `name: $variableName`
buildArgumentUsage(args) ==
  JoinWithComma([i \in 1..Len(args) |->
    <<Word(args[i].name), Word(":"), Variable(toCamelCase(args[i].name))>>])

\* buildFieldSelectionWithFragments
RECURSIVE buildFieldSelectionWithFragments(_, _, _, _, _)
buildFieldSelectionWithFragments(type, types, depth, visitedTypes, md) ==
  IF depth > md THEN <<Word("...")>>
  ELSE IF type.kind = "SCALAR" THEN <<>>
  ELSE IF type.kind = "NON_NULL" \/ type.kind = "LIST"
  THEN buildFieldSelectionWithFragments(type.ofType, types, depth,
                                        visitedTypes, md)
  ELSE IF type.kind \in {"OBJECT", "INTERFACE", "UNION"}
  THEN IF type.name = "" \/ type.name \in visitedTypes THEN <<Word("...")>>
       ELSE IF findType(types, type.name) = NoTypeDef
                 \/ ~findType(types, type.name).fieldsPresent
       THEN <<Word("...")>>
       ELSE <<Word("{"), Spread(type.name \o "Fragment"), Word("}")>>
  ELSE <<Word("...")>>

\* buildFieldSelectionForOperationWithFragments
buildFieldSelectionForOperationWithFragments(returnType, types, md) ==
  IF returnType.kind = "SCALAR" THEN <<>>
  ELSE buildFieldSelectionWithFragments(returnType, types, 0, {}, md)

\* buildOperationStringWithFragments
buildOperationStringWithFragments(name, args, type, returnType, types, md) ==
  LET argDefs == buildArgumentDefinitions(args)
      argUses == buildArgumentUsage(args)
      fieldSelection ==
        buildFieldSelectionForOperationWithFragments(returnType, types, md)
  IN <<Word(type), Word(name)>>
       \o (IF argDefs # <<>> THEN <<Word("(")>> \o argDefs \o <<Word(")")>>
           ELSE <<>>)
       \o <<Word("{"), Word(name)>>
       \o (IF argUses # <<>> THEN <<Word("(")>> \o argUses \o <<Word(")")>>
           ELSE <<>>)
       \o fieldSelection \o <<Word("}")>>

\* processOperationFieldsWithFragments on the fields of the root type named
\* rootName ("" when the schema names none): operation texts by field name
processOperationFieldsWithFragments(rootName, operationType, types, md) ==
  LET root == findType(types, rootName)
      fields == IF rootName = "" \/ root = NoTypeDef \/ ~root.fieldsPresent
                THEN <<>> ELSE root.fields
  IN [n \in { fields[i].name : i \in 1..Len(fields) } |->
        LET field == fields[CHOOSE i \in 1..Len(fields) :
                              /\ fields[i].name = n
                              /\ \A j \in (i + 1)..Len(fields) :
                                    fields[j].name # n]
        IN buildOperationStringWithFragments(field.name, field.args,
                                             operationType, field.type,
                                             types, md)]

\* POST of the generate route: maxDepth || 50, the fragments, the operations
\* (the result before its empty parts are left out of the response)
GenerateRoute(sch, md) ==
  LET depth == IF md = 0 THEN 50 ELSE md
  IN [Fragments |-> generateFragments(sch.types, depth),
      Queries |-> processOperationFieldsWithFragments(
                    sch.queryType, "query", sch.types, depth),
      Mutations |-> processOperationFieldsWithFragments(
                      sch.mutationType, "mutation", sch.types, depth),
      Subscriptions |-> processOperationFieldsWithFragments(
                          sch.subscriptionType, "subscription", sch.types,
                          depth)]

\* the types a root field returns and the definitions behind them: an
\* object type, an interface, a union, and a name without a definition
ReturnTypes ==
  { ScalarT("String"), ObjectT("A"), NonNullT(ListT(NonNullT(ObjectT("A")))),
    InterfaceT("N"), ListT(InterfaceT("N")), UnionT("U"), ObjectT("M") }

ReturnedTypeDefs ==
  << TypeDef("A", "OBJECT", TRUE, <<Field("x", NonNullT(ScalarT("String")))>>),
     TypeDef("N", "INTERFACE", TRUE,
             <<Field("x", NonNullT(ScalarT("String")))>>),
     TypeDef("U", "UNION", FALSE, <<>>) >>

\* the argument lists of a root field
ArgumentLists ==
  { <<>>,
    <<Argument("id", NonNullT(ScalarT("ID")), "")>>,
    <<Argument("Id", NonNullT(ScalarT("ID")), "")>>,
    <<Argument("first", ScalarT("Int"), "10")>>,
    <<Argument("id", NonNullT(ScalarT("ID")), ""),
      Argument("first", ListT(NonNullT(ScalarT("Int"))), "")>>,
    <<Argument("id", NonNullT(ScalarT("ID")), ""),
      Argument("Id", ScalarT("ID"), "")>> }

RootNames == {"Query", "Mutation", "Subscription"}

\* the introspection schemas posted: one root type with one field
RouteSchemas ==
  { [types |-> <<TypeDef(root, "OBJECT", TRUE, <<RootField("a", args, t)>>)>>
                 \o ReturnedTypeDefs,
     queryType |-> IF root = "Query" THEN root ELSE "",
     mutationType |-> IF root = "Mutation" THEN root ELSE "",
     subscriptionType |-> IF root = "Subscription" THEN root ELSE ""] :
    <<root, args, t>> \in RootNames \X ArgumentLists \X ReturnTypes }

InitGenerateRoute ==
  /\ request = "generateRoute"
  /\ call \in { [fn |-> "generateRoute", schema |-> sch, maxDepth |-> md] :
                  <<sch, md>> \in RouteSchemas \X (0..MaxDepthArg) }
  /\ ret = NoCall
  /\ EnginesIdle

PostGenerate ==
  /\ request = "generateRoute" /\ ret = NoCall
  /\ ret' = GenerateRoute(call.schema, call.maxDepth)
  /\ UNCHANGED <<request, call, vvars, gvars>>

\* the operation texts of a response, whatever their kind
OperationTexts(response) ==
  { response.Queries[n] : n \in DOMAIN response.Queries }
    \cup { response.Mutations[n] : n \in DOMAIN response.Mutations }
    \cup { response.Subscriptions[n] : n \in DOMAIN response.Subscriptions }

\* C21, as the claim states it: every fragment spread in an operation text
\* of the response names a fragment of the response's fragment map.
C21_OperationsSpreadBuiltFragments ==
  (request = "generateRoute" /\ ret # NoCall) =>
    \A op \in OperationTexts(ret) :
      Range(fragmentNamesIn(op)) \subseteq DOMAIN ret.Fragments

\* the tokens of a text before its first opening brace: the operation header
RECURSIVE Header(_)
Header(tokens) ==
  IF tokens = <<>> \/ Head(tokens) = Word("{") THEN <<>>
  ELSE <<Head(tokens)>> \o Header(Tail(tokens))

Body(tokens) == SubSeq(tokens, Len(Header(tokens)) + 1, Len(tokens))

\* the positions of a text at which a variable stands
VariablesAt(tokens) == { i \in 1..Len(tokens) : tokens[i].kind = "variable" }

\* the type in GraphQL notation
RECURSIVE TypeNotation(_)
TypeNotation(type) ==
  CASE type.kind = "NON_NULL" -> TypeNotation(type.ofType) \o "!"
    [] type.kind = "LIST" -> "[" \o TypeNotation(type.ofType) \o "]"
    [] OTHER -> type.name

\* the header declares `$a: T`, with the default value when there is one
Declares(header, arg) ==
  \E i \in VariablesAt(header) :
    /\ header[i] = Variable(arg.name)
    /\ i + 2 <= Len(header)
    /\ header[i + 1] = Word(":")
    /\ header[i + 2] = Word(TypeNotation(arg.type))
    /\ arg.defaultValue # "" =>
         /\ i + 4 <= Len(header)
         /\ header[i + 3] = Word("=")
         /\ header[i + 4] = Word(arg.defaultValue)
    /\ arg.defaultValue = "" =>
         (i + 3 <= Len(header) => header[i + 3] # Word("="))

\* the field's argument list passes `a: $a`
Passes(body, arg) ==
  \E i \in VariablesAt(body) :
    /\ body[i] = Variable(arg.name)
    /\ i > 2
    /\ body[i - 1] = Word(":")
    /\ body[i - 2] = Word(arg.name)

\* the root fields of a posted schema with the operation text made for each
OperationsOf(sch, response) ==
  { <<findType(sch.types, sch.queryType).fields[1], response.Queries[n]>> :
      n \in DOMAIN response.Queries }
    \cup { <<findType(sch.types, sch.mutationType).fields[1],
             response.Mutations[n]>> : n \in DOMAIN response.Mutations }
    \cup { <<findType(sch.types, sch.subscriptionType).fields[1],
             response.Subscriptions[n]>> :
           n \in DOMAIN response.Subscriptions }

\* C22, as the claim states it: the operation made for a root field
\* declares `$a: T` (with the default value when there is one) and passes
\* `a: $a` for each argument a of type T, and the variables declared are the
\* variables used, one per argument.
C22_OneVariablePerArgument ==
  (request = "generateRoute" /\ ret # NoCall) =>
    \A fo \in OperationsOf(call.schema, ret) :
      LET field == fo[1]
          header == Header(fo[2])
          body == Body(fo[2])
      IN /\ \A i \in 1..Len(field.args) :
              Declares(header, field.args[i]) /\ Passes(body, field.args[i])
         /\ { header[i].text : i \in VariablesAt(header) }
              = { body[i].text : i \in VariablesAt(body) }
         /\ Cardinality({ header[i].text : i \in VariablesAt(header) })
              = Len(field.args)
         /\ Cardinality(VariablesAt(header)) = Len(field.args)
         /\ Cardinality(VariablesAt(body)) = Len(field.args)

(***************************************************************************)
(* Several generateFragments calls in one process, one after the other.    *)
(* call counts the calls made; ret keeps what each finished call returned, *)
(* by its arguments.                                                       *)
(***************************************************************************)
\* largest number of calls in a row
MaxCalls == 3

\* the schema lists called with: a single definition, a definition next to
\* one without fields, two variants of one name in both orders, and two
\* definitions referring to each other
CallSchemas ==
  { <<TypeDef("A", "OBJECT", TRUE, <<Field("x", NonNullT(ScalarT("String")))>>)>>,
    <<TypeDef("B", "OBJECT", FALSE, <<>>),
      TypeDef("A", "OBJECT", TRUE, <<Field("y", NonNullT(ObjectT("B")))>>)>>,
    <<TypeDef("A", "OBJECT", TRUE, <<Field("y", ListT(ObjectT("A")))>>)>>,
    <<TypeDef("A", "OBJECT", TRUE, <<Field("x", NonNullT(ScalarT("String")))>>),
      TypeDef("A", "OBJECT", TRUE, <<Field("y", ListT(ObjectT("A")))>>)>>,
    <<TypeDef("A", "OBJECT", TRUE, <<Field("y", ListT(ObjectT("A")))>>),
      TypeDef("A", "OBJECT", TRUE, <<Field("x", NonNullT(ScalarT("String")))>>)>>,
    <<TypeDef("A", "OBJECT", TRUE, <<Field("y", NonNullT(ObjectT("B")))>>),
      TypeDef("B", "OBJECT", TRUE, <<Field("y", ListT(ObjectT("A")))>>)>> }

KeptFromLastCall(previous) == previous

\* const fragments = {}, new Map(), new Map(): made anew by every call
ConstructedFresh(previous) == EmptyMap

InitCalls ==
  /\ request = "generate"
  /\ schema \in CallSchemas
  /\ maxDepth \in 0..MaxDepthArg
  /\ fragments = EmptyMap
  /\ fragmentCache = EmptyMap
  /\ fragmentCounters = EmptyMap
  /\ stack = <<>>
  /\ typeIdx = 1
  /\ gpc = "loop"
  /\ vschemaText = "" /\ vdata = Undefined /\ vtypeName = ""
  /\ vpc = "idle" /\ vresult = NoResult
  /\ call = [fn |-> "generateFragments", made |-> 1]
  /\ ret = EmptyMap

\* the call has returned and generateFragments is called again
NextCall ==
  /\ request = "generate" /\ gpc = "done"
  /\ call.fn = "generateFragments" /\ call.made < MaxCalls
  /\ call' = [call EXCEPT !.made = @ + 1]
  /\ ret' = MapSet(ret, <<schema, maxDepth>>, fragments)
  /\ schema' \in CallSchemas
  /\ maxDepth' \in 0..MaxDepthArg
  /\ fragments' = ConstructedFresh(fragments)
  /\ fragmentCache' = ConstructedFresh(fragmentCache)
  /\ fragmentCounters' = ConstructedFresh(fragmentCounters)
  /\ stack' = <<>>
  /\ typeIdx' = 1
  /\ gpc' = "loop"
  /\ UNCHANGED <<request, vvars>>

NextOfCalls ==
  \/ SkipType
  \/ TopLevelCall
  \/ MapBareField
  \/ MapObjectFieldReturned
  \/ MapObjectFieldCall
  \/ StoreFragment
  \/ ReturnFragments
  \/ NextCall

CallsSpec == InitCalls /\ [][NextOfCalls]_vars

\* C25: whenever a call has returned, whatever calls were made before it,
\* the fragments returned are those generateFragments yields on its
\* arguments alone, and they are the fragments an earlier call with the same
\* arguments returned; a call starts with fragments, registry and counters
\* empty.
C25_ResultDependsOnArgumentsAlone ==
  /\ (request = "generate" /\ gpc = "done") =>
       /\ fragments = generateFragments(schema, maxDepth)
       /\ <<schema, maxDepth>> \in DOMAIN ret =>
            ret[<<schema, maxDepth>>] = fragments
  /\ (request = "generate" /\ gpc = "loop" /\ typeIdx = 1 /\ stack = <<>>) =>
       /\ fragments = EmptyMap
       /\ fragmentCache = EmptyMap
       /\ fragmentCounters = EmptyMap

\* the third call has returned; it was made with the arguments of the first
\* one, after a call on another schema list that registered a variant
C25_Witness ==
  /\ request = "generate" /\ gpc = "done" /\ call.made = 3
  /\ <<schema, maxDepth>> \in DOMAIN ret
  /\ Cardinality(DOMAIN ret) = 2
  /\ fragments # EmptyMap
  /\ \E other \in DOMAIN ret :
       /\ other[1] # schema
       /\ "AFragment_2" \in DOMAIN ret[other]

(***************************************************************************)
(* The functions applied in one step each.                                 *)
(***************************************************************************)
InitFunctions ==
  \/ InitSignatures
  \/ InitCompleteQuery
  \/ InitReport
  \/ InitGenerateRoute

NextFunctions ==
  \/ Signatures
  \/ CompleteQuery
  \/ Report
  \/ PostGenerate

FunctionsSpec == InitFunctions /\ [][NextFunctions]_vars

====
